---------------------------- MODULE Spec2Model ----------------------------
(***************************************************************************)
(* Model of lightningd/onchain/onchain.c: the per-channel on-chain         *)
(* resolution engine.  main() reads the init message and tracks the        *)
(* funding output, classifies the close, runs the handler of the close     *)
(* type (one step per commitment output) and then wait_for_resolved, which *)
(* reads one parent message per step.                                      *)
(*                                                                         *)
(* Byte strings (scripts, txids) are sequences of naturals; a hash is      *)
(* modelled as an injective function of what it hashes.  A NULL pointer    *)
(* is the empty sequence, a non-NULL one a sequence of length one.         *)
(***************************************************************************)
EXTENDS Integers, Sequences, FiniteSets, TLC

(***************************************************************************)
(* Bounds of the model (inputs the parent may send).                       *)
(***************************************************************************)
\* commitment outputs in the close tx
MaxOutputs == 2
\* HTLC stubs sent after the init message
MaxHtlcs == 1
\* depths 1..MaxLow are delivered, besides those around the threshold
MaxLow == 1
\* depths up to IRREVOCABLE_DEPTH + MaxOver are delivered
MaxOver == 1
\* the satoshi amount of every commitment output
OutputSatoshi == 1000
\* what the funding output holds above the commitment's outputs
MaxCommitFee == 0
\* the feerates the counterparty signs HTLC-timeout txs at go up to
\* MaxSigFeerate thousands per kw
MaxSigFeerate == 2
\* feerate_per_kw and local_dust_limit_satoshi of the init message
FeeratePerKw == 1000
\* the feerates the counterparty signed HTLC-timeout txs at are its multiples;
\* 1004 is the only feerate whose HTLC-timeout fee is 665
SigFeerateStep == 1004
LocalDustLimit == 546

(***************************************************************************)
(* Program constants.                                                      *)
(***************************************************************************)
IRREVOCABLE_DEPTH == 100
HTLC_TIMEOUT_WEIGHT == 663
COMMIT_WEIGHT == 724
HTLC_WEIGHT == 172
\* worst-case witness bytes added to the measured tx cost: 1 + 3 + 73 + 0
WITNESS_OVERHEAD == 77

\* enum side (LOCAL is a reserved word of TLA+)
LOCAL_SIDE == 0
REMOTE_SIDE == 1

NULL == <<>>
Ptr(x) == <<x>>
Deref(p) == p[1]

Min(a, b) == IF a < b THEN a ELSE b
Max(a, b) == IF a > b THEN a ELSE b

RECURSIVE Flatten(_)
Flatten(ss) == IF ss = <<>> THEN <<>> ELSE Head(ss) \o Flatten(Tail(ss))

RECURSIVE SumAmounts(_)
SumAmounts(output) ==
    IF output = <<>> THEN 0 ELSE Head(output).amount + SumAmounts(Tail(output))

(***************************************************************************)
(* Keys and scripts (bitcoin/script.h, lightningd/keyset.h): each is the   *)
(* byte string the library builds from its arguments.                      *)
(***************************************************************************)
\* the keyset derive_keyset yields from a per-commitment point
KS_LOCAL == 1
KS_REMOTE_OLD == 2
KS_REMOTE_NEW == 3
WALLET_KEY == 9

other_payment_key(keyset) == 20 + keyset

to_self_wscript(to_self_delay, keyset) == <<10, to_self_delay, keyset>>
htlc_offered_wscript(ripemd, keyset) == <<11, ripemd, keyset>>
htlc_received_wscript(ripemd, cltv_expiry, keyset) == <<12, ripemd, cltv_expiry, keyset>>

scriptpubkey_p2wsh(wscript) == <<0, 32>> \o wscript
scriptpubkey_p2wpkh(key) == <<0, 20, key>>
is_p2wsh(script) == Len(script) >= 2 /\ script[1] = 0 /\ script[2] = 32
scripteq(s, t) == s = t

\* the closing scriptpubkeys of the init message, and a script nobody knows
CLOSING_LOCAL == <<0, 20, 1>>
CLOSING_REMOTE == <<0, 20, 2>>

(***************************************************************************)
(* Transactions.  A tx has one input; its txid hashes everything but the   *)
(* witness.                                                                *)
(***************************************************************************)
FUNDING_TXID == <<1>>
UNRELATED_TXID == <<2>>

bitcoin_txid(tx) ==
    <<3, Len(tx.input_txid)>> \o tx.input_txid
      \o <<tx.input_index, tx.sequence_number, tx.lock_time, Len(tx.output)>>
      \o Flatten([k \in 1..Len(tx.output) |->
                    <<tx.output[k].amount, Len(tx.output[k].script)>>
                      \o tx.output[k].script])

(***************************************************************************)
(* The tracked-output store.                                               *)
(***************************************************************************)
\* mutant: the output's index is not recorded
new_tracked_output_no_outnum(outs, txid, tx_blockheight, tx_type, outnum, satoshi, output_type) ==
    Append(outs, [tx_type |-> tx_type,
                  txid |-> txid,
                  tx_blockheight |-> tx_blockheight,
                  outnum |-> 0,
                  satoshi |-> satoshi,
                  output_type |-> output_type,
                  proposal |-> NULL,
                  resolved |-> NULL])

new_tracked_output(outs, txid, tx_blockheight, tx_type, outnum, satoshi, output_type) ==
    Append(outs, [tx_type |-> tx_type,
                  txid |-> txid,
                  tx_blockheight |-> tx_blockheight,
                  outnum |-> outnum,
                  satoshi |-> satoshi,
                  output_type |-> output_type,
                  proposal |-> NULL,
                  resolved |-> NULL])

\* mutant: the output is left to be ignored at depth 0 instead
ignore_output_at_depth(out) ==
    [out EXCEPT !.proposal =
        Ptr([tx |-> NULL, depth_required |-> 0, tx_type |-> "SELF"])]

ignore_output(out) ==
    [out EXCEPT !.resolved =
        Ptr([txid |-> out.txid, depth |-> 0, tx_type |-> "SELF"])]

propose_resolution(out, tx, depth_required, tx_type) ==
    [out EXCEPT !.proposal =
        Ptr([tx |-> tx, depth_required |-> depth_required, tx_type |-> tx_type])]

\* mutant: the difference is taken whether or not the block is past; a
\* negative number stands for the value a u32 wraps around to
propose_resolution_at_block_unguarded(out, tx, block_required, tx_type) ==
    propose_resolution(out, tx, block_required - out.tx_blockheight, tx_type)

\* block_required and tx_blockheight are unsigned and the difference is
\* taken only when it is not negative, so no u32 arithmetic wraps here
propose_resolution_at_block(out, tx, block_required, tx_type) ==
    propose_resolution(out, tx,
                       IF block_required < out.tx_blockheight
                       THEN 0
                       ELSE block_required - out.tx_blockheight,
                       tx_type)

\* mutant: any proposal with a tx counts as the spender
resolved_by_proposal_ok_any_tx(out, txid) == Deref(out.proposal).tx # NULL

\* the return value of resolved_by_proposal; it reads out->proposal->tx, so
\* it is only defined on an output that has a proposal
resolved_by_proposal_ok(out, txid) ==
    /\ Deref(out.proposal).tx # NULL
    /\ bitcoin_txid(Deref(Deref(out.proposal).tx)) = txid

\* the output after resolved_by_proposal
resolved_by_proposal(out, txid) ==
    IF resolved_by_proposal_ok(out, txid)
    THEN [out EXCEPT !.resolved =
            Ptr([txid |-> bitcoin_txid(Deref(Deref(out.proposal).tx)),
                 depth |-> 0,
                 tx_type |-> Deref(out.proposal).tx_type])]
    ELSE out

resolved_by_other(out, txid, tx_type) ==
    [out EXCEPT !.resolved =
        Ptr([txid |-> txid, depth |-> 0, tx_type |-> tx_type])]

\* mutant: the txid recorded is the spent output's, not the spender's
unknown_spend_own_txid(out, tx) ==
    [out EXCEPT !.resolved =
        Ptr([txid |-> out.txid, depth |-> 0, tx_type |-> "UNKNOWN_TXTYPE"])]

unknown_spend(out, tx) ==
    [out EXCEPT !.resolved =
        Ptr([txid |-> bitcoin_txid(tx), depth |-> 0, tx_type |-> "UNKNOWN_TXTYPE"])]

\* mutant: a closing scriptpubkey may match any number of outputs
is_mutual_close_any_number(tx, local_scriptpubkey, remote_scriptpubkey) ==
    \A i \in 1..Len(tx.output) :
        \/ scripteq(tx.output[i].script, local_scriptpubkey)
        \/ scripteq(tx.output[i].script, remote_scriptpubkey)

is_mutual_close(tx, local_scriptpubkey, remote_scriptpubkey) ==
    LET RECURSIVE scan(_, _, _)
        scan(i, local_matched, remote_matched) ==
            IF i > Len(tx.output) THEN TRUE
            ELSE IF scripteq(tx.output[i].script, local_scriptpubkey) /\ ~local_matched
                 THEN scan(i + 1, TRUE, remote_matched)
            ELSE IF scripteq(tx.output[i].script, remote_scriptpubkey) /\ ~remote_matched
                 THEN scan(i + 1, local_matched, TRUE)
            ELSE FALSE
    IN scan(1, FALSE, FALSE)

is_local_commitment(txid, our_broadcast_txid) == txid = our_broadcast_txid

\* mutant: the threshold taken one block too deep
all_irrevocably_resolved_above(outs) ==
    \A i \in 1..Len(outs) :
        ~(outs[i].resolved # NULL /\ Deref(outs[i].resolved).depth <= IRREVOCABLE_DEPTH)

all_irrevocably_resolved(outs) ==
    \A i \in 1..Len(outs) :
        ~(outs[i].resolved # NULL /\ Deref(outs[i].resolved).depth < IRREVOCABLE_DEPTH)

(***************************************************************************)
(* Feerate inference.                                                      *)
(***************************************************************************)
init_feerate_range(funding_satoshi, commit_tx) ==
    LET fee == funding_satoshi - SumAmounts(commit_tx.output)
        max_untrimmed_htlcs ==
            IF Len(commit_tx.output) < 2 THEN 0 ELSE Len(commit_tx.output) - 2
    IN [min |-> 0,
        max |-> ((fee + 999) * 1000) \div (COMMIT_WEIGHT + HTLC_WEIGHT * max_untrimmed_htlcs)]

\* mutant: the fee is taken as exact, without the 999 of rounding either way
narrow_feerate_range_no_rounding(feerate_range, fee, multiplier) ==
    LET max == (fee * 1000) \div multiplier
        min == (fee * 1000) \div multiplier
    IN [min |-> IF min > feerate_range.min THEN min ELSE feerate_range.min,
        max |-> IF max < feerate_range.max THEN max ELSE feerate_range.max]

\* mutant: the bounds computed from the fee replace the range
narrow_feerate_range_replaces(feerate_range, fee, multiplier) ==
    [min |-> IF fee < 999 THEN 0 ELSE ((fee - 999) * 1000) \div multiplier,
     max |-> ((fee + 999) * 1000) \div multiplier]

narrow_feerate_range(feerate_range, fee, multiplier) ==
    LET max == ((fee + 999) * 1000) \div multiplier
        min == IF fee < 999 THEN 0 ELSE ((fee - 999) * 1000) \div multiplier
    IN [min |-> IF min > feerate_range.min THEN min ELSE feerate_range.min,
        max |-> IF max < feerate_range.max THEN max ELSE feerate_range.max]

htlc_timeout_fee(feerate_per_kw) == (feerate_per_kw * HTLC_TIMEOUT_WEIGHT) \div 1000

(***************************************************************************)
(* Signatures: a signature is what was signed (the tx without witness and  *)
(* the witness script) and the key that signed it.                         *)
(***************************************************************************)
sign_tx_input(tx, wscript, pubkey) ==
    [sighash |-> bitcoin_txid(tx) \o wscript, key |-> pubkey]

check_tx_sig(tx, wscript, key, sig) == sig = sign_tx_input(tx, wscript, key)

\* measure_tx_cost of a tx with one input and its outputs, in weight units
measure_tx_cost(tx) ==
    4 * (4 + 1 + 41 + 1 + 4) + 2
      + 4 * SumAmounts([k \in 1..Len(tx.output) |->
                          [amount |-> 8 + 1 + Len(tx.output[k].script)]])

(***************************************************************************)
(* Second-stage transactions.                                              *)
(***************************************************************************)
\* mutant: an output of exactly the dust limit is dropped too
tx_to_us_drops_at_dust_limit(out, to_self_delay, locktime, feerate, dust_limit, wscript, our_wallet_pubkey) ==
    LET tx == [input_txid |-> out.txid,
               input_index |-> out.outnum,
               sequence_number |-> to_self_delay,
               lock_time |-> locktime,
               output |-> <<[amount |-> out.satoshi,
                             script |-> scriptpubkey_p2wpkh(our_wallet_pubkey)]>>]
        fee == (feerate * (measure_tx_cost(tx) + WITNESS_OVERHEAD + Len(wscript))) \div 1000
    IN IF tx.output[1].amount <= dust_limit + fee
       THEN [tx EXCEPT !.output = <<>>]
       ELSE [tx EXCEPT !.output[1].amount = @ - fee]

tx_to_us(out, to_self_delay, locktime, feerate, dust_limit, wscript, our_wallet_pubkey) ==
    LET tx == [input_txid |-> out.txid,
               input_index |-> out.outnum,
               sequence_number |-> to_self_delay,
               lock_time |-> locktime,
               output |-> <<[amount |-> out.satoshi,
                             script |-> scriptpubkey_p2wpkh(our_wallet_pubkey)]>>]
        fee == (feerate * (measure_tx_cost(tx) + WITNESS_OVERHEAD + Len(wscript))) \div 1000
    IN IF tx.output[1].amount < dust_limit + fee
       THEN [tx EXCEPT !.output = <<>>]
       ELSE [tx EXCEPT !.output[1].amount = @ - fee]

\* htlc_timeout_tx(ctx, txid, outnum, msatoshi, cltv_expiry, to_self_delay, 0, keyset)
htlc_timeout_tx(txid, outnum, satoshi, cltv_expiry, to_self_delay, keyset) ==
    [input_txid |-> txid,
     input_index |-> outnum,
     sequence_number |-> 0,
     lock_time |-> cltv_expiry,
     output |-> <<[amount |-> satoshi,
                   script |-> scriptpubkey_p2wsh(to_self_wscript(to_self_delay, keyset))]>>]

(***************************************************************************)
(* The for loop of resolve_our_htlc_ourcommit over i = hi downto lo,       *)
(* entered with prev_fee: [found, i, fee, prev_fee].  UINT64_MAX is -1.    *)
(* The range is walked in halves, upper half first, which is the order of  *)
(* the loop.                                                               *)
(***************************************************************************)
\* mutant: only the top of the range is tried
feerate_loop_max_only(hi, lo, prev_fee, out, tx, wscript, key, remotesig) ==
    IF hi >= lo /\ htlc_timeout_fee(hi) <= out.satoshi
                /\ check_tx_sig([tx EXCEPT !.output[1].amount = out.satoshi - htlc_timeout_fee(hi)],
                                wscript, key, remotesig)
    THEN [found |-> TRUE, i |-> hi, fee |-> htlc_timeout_fee(hi), prev_fee |-> htlc_timeout_fee(hi)]
    ELSE [found |-> FALSE, i |-> 0, fee |-> 0, prev_fee |-> prev_fee]

RECURSIVE feerate_loop(_, _, _, _, _, _, _, _)
feerate_loop(hi, lo, prev_fee, out, tx, wscript, key, remotesig) ==
    IF hi < lo THEN [found |-> FALSE, i |-> 0, fee |-> 0, prev_fee |-> prev_fee]
    ELSE IF hi = lo THEN
        LET fee == htlc_timeout_fee(hi) IN
        IF fee > out.satoshi
        THEN [found |-> FALSE, i |-> 0, fee |-> 0, prev_fee |-> prev_fee]
        ELSE IF fee = prev_fee
        THEN [found |-> FALSE, i |-> 0, fee |-> 0, prev_fee |-> prev_fee]
        ELSE IF ~check_tx_sig([tx EXCEPT !.output[1].amount = out.satoshi - fee],
                              wscript, key, remotesig)
        THEN [found |-> FALSE, i |-> 0, fee |-> 0, prev_fee |-> fee]
        ELSE [found |-> TRUE, i |-> hi, fee |-> fee, prev_fee |-> fee]
    ELSE
        LET mid == (hi + lo + 1) \div 2
            upper == feerate_loop(hi, mid, prev_fee, out, tx, wscript, key, remotesig)
        IN IF upper.found THEN upper
           ELSE feerate_loop(mid - 1, lo, upper.prev_fee, out, tx, wscript, key, remotesig)

(***************************************************************************)
(* The HTLC resolvers: each yields the output with its proposal; the one   *)
(* on our own commitment also whether a feerate was found, and the         *)
(* narrowed range.                                                         *)
(***************************************************************************)
resolve_our_htlc_ourcommit(out, htlc, to_self_delay, feerate_range, remotesig, keyset) ==
    LET tx == htlc_timeout_tx(out.txid, out.outnum, out.satoshi,
                              htlc.cltv_expiry, to_self_delay, keyset)
        wscript == htlc_offered_wscript(htlc.ripemd, keyset)
        r == feerate_loop(feerate_range.max, feerate_range.min, -1, out, tx,
                          wscript, other_payment_key(keyset), remotesig)
    IN IF r.found
       THEN [ok |-> TRUE,
             feerate_range |-> narrow_feerate_range(feerate_range, r.fee, HTLC_TIMEOUT_WEIGHT),
             out |-> propose_resolution_at_block(
                         out,
                         Ptr([tx EXCEPT !.output[1].amount = out.satoshi - r.fee]),
                         htlc.cltv_expiry, "OUR_HTLC_TIMEOUT_TO_US")]
       ELSE [ok |-> FALSE, feerate_range |-> feerate_range, out |-> out]

resolve_our_htlc_theircommit(out, wscript, htlc, wallet_pubkey, feerate_per_kw, dust_limit) ==
    propose_resolution_at_block(
        out,
        Ptr(tx_to_us(out, 0, htlc.cltv_expiry, feerate_per_kw,
                     dust_limit, wscript, wallet_pubkey)),
        htlc.cltv_expiry, "OUR_HTLC_TIMEOUT_TO_US")

\* mutant: nothing is proposed for their HTLC
resolve_their_htlc_no_proposal(out, htlc) == out

resolve_their_htlc(out, htlc) ==
    propose_resolution_at_block(out, NULL, htlc.cltv_expiry, "THEIR_HTLC_TIMEOUT_TO_THEM")

\* the index (from 0) of the first live HTLC script the output pays, or -1
match_htlc_output(tx, outnum, htlc_scripts) ==
    IF ~is_p2wsh(tx.output[outnum + 1].script) THEN -1
    ELSE LET hits == {j \in 1..Len(htlc_scripts) :
                        /\ htlc_scripts[j] # NULL
                        /\ tx.output[outnum + 1].script = scriptpubkey_p2wsh(htlc_scripts[j])}
         IN IF hits = {} THEN -1
            ELSE (CHOOSE j \in hits : \A k \in hits : j <= k) - 1

derive_htlc_scripts(htlcs, side, keyset) ==
    [j \in 1..Len(htlcs) |->
        IF htlcs[j].owner = side
        THEN htlc_offered_wscript(htlcs[j].ripemd, keyset)
        ELSE htlc_received_wscript(htlcs[j].ripemd, htlcs[j].cltv_expiry, keyset)]

\* the commitment number hidden in locktime and sequence (obscurer 0)
unmask_commit_number(tx) ==
    (tx.lock_time % 16777216) + (tx.sequence_number % 16777216) * 16777216

(***************************************************************************)
(* Wire messages.                                                          *)
(***************************************************************************)
NO_TX == [input_txid |-> <<>>, input_index |-> 0, sequence_number |-> 0,
          lock_time |-> 0, output |-> <<>>]

\* mutant: whatever the handler, the state reported is that of a mutual close
towire_onchain_init_reply_mutual(state) ==
    [type |-> "onchain_init_reply", state |-> "ONCHAIND_MUTUAL", tx |-> NO_TX,
     txid |-> <<>>, num_outputs |-> 0]

towire_onchain_init_reply(state) ==
    [type |-> "onchain_init_reply", state |-> state, tx |-> NO_TX,
     txid |-> <<>>, num_outputs |-> 0]
towire_onchain_broadcast_tx(tx) ==
    [type |-> "onchain_broadcast_tx", state |-> "", tx |-> tx,
     txid |-> <<>>, num_outputs |-> 0]
towire_onchain_unwatch_tx(txid, num_outputs) ==
    [type |-> "onchain_unwatch_tx", state |-> "", tx |-> NO_TX,
     txid |-> txid, num_outputs |-> num_outputs]

\* of onchain_init's fields the tx that spent the funding output and
\* our_broadcast_txid
onchain_init(tx, our_broadcast_txid) ==
    [type |-> "onchain_init", txid |-> our_broadcast_txid, depth |-> 0, tx |-> tx]
onchain_depth(txid, depth) ==
    [type |-> "onchain_depth", txid |-> txid, depth |-> depth, tx |-> NO_TX]
onchain_spent(tx) ==
    [type |-> "onchain_spent", txid |-> <<>>, depth |-> 0, tx |-> tx]
onchain_known_preimage ==
    [type |-> "onchain_known_preimage", txid |-> <<>>, depth |-> 0, tx |-> NO_TX]
bad_message ==
    [type |-> "bad", txid |-> <<>>, depth |-> 0, tx |-> NO_TX]

(***************************************************************************)
(* The depth/spend loop's handlers, as functions of the store: each yields *)
(* the store after it, what it wrote to the parent, and the error it       *)
(* failed with ("" if none).                                               *)
(***************************************************************************)
\* mutant: the proposal is dropped once its tx is broadcast
proposal_meets_depth_drops(out) ==
    IF Deref(out.proposal).tx = NULL
    THEN [out |-> ignore_output(out), sent |-> <<>>]
    ELSE [out |-> [out EXCEPT !.proposal = NULL],
          sent |-> <<towire_onchain_broadcast_tx(Deref(Deref(out.proposal).tx))>>]

proposal_meets_depth(out) ==
    IF Deref(out.proposal).tx = NULL
    THEN [out |-> ignore_output(out), sent |-> <<>>]
    ELSE [out |-> out,
          sent |-> <<towire_onchain_broadcast_tx(Deref(Deref(out.proposal).tx))>>]

unwatch_tx(tx) == <<towire_onchain_unwatch_tx(bitcoin_txid(tx), Len(tx.output))>>

\* mutant: the depth is given to every resolved output, whatever resolved it
tx_new_depth_one_any_txid(out, txid, depth) ==
    IF out.resolved # NULL
    THEN [out |-> [out EXCEPT !.resolved[1].depth = depth], sent |-> <<>>]
    ELSE IF /\ out.proposal # NULL
            /\ out.txid = txid
            /\ depth >= Deref(out.proposal).depth_required
         THEN proposal_meets_depth(out)
         ELSE [out |-> out, sent |-> <<>>]

\* mutant: the proposal fires at the depth of any tx
tx_new_depth_one_of_any_tx(out, txid, depth) ==
    IF out.resolved # NULL
    THEN IF Deref(out.resolved).txid = txid
         THEN [out |-> [out EXCEPT !.resolved[1].depth = depth], sent |-> <<>>]
         ELSE [out |-> out, sent |-> <<>>]
    ELSE IF out.proposal # NULL /\ depth >= Deref(out.proposal).depth_required
         THEN proposal_meets_depth(out)
         ELSE [out |-> out, sent |-> <<>>]

\* mutant: the proposal fires whatever the depth is
tx_new_depth_one_any_depth(out, txid, depth) ==
    IF out.resolved # NULL
    THEN IF Deref(out.resolved).txid = txid
         THEN [out |-> [out EXCEPT !.resolved[1].depth = depth], sent |-> <<>>]
         ELSE [out |-> out, sent |-> <<>>]
    ELSE IF out.proposal # NULL /\ out.txid = txid
         THEN proposal_meets_depth(out)
         ELSE [out |-> out, sent |-> <<>>]

\* one iteration of the for loop of tx_new_depth
tx_new_depth_one(out, txid, depth) ==
    IF out.resolved # NULL
    THEN IF Deref(out.resolved).txid = txid
         THEN [out |-> [out EXCEPT !.resolved[1].depth = depth], sent |-> <<>>]
         ELSE [out |-> out, sent |-> <<>>]
    ELSE IF /\ out.proposal # NULL
            /\ out.txid = txid
            /\ depth >= Deref(out.proposal).depth_required
         THEN proposal_meets_depth(out)
         ELSE [out |-> out, sent |-> <<>>]

tx_new_depth(outs, txid, depth) ==
    [outs |-> [i \in 1..Len(outs) |-> tx_new_depth_one(outs[i], txid, depth).out],
     sent |-> Flatten([i \in 1..Len(outs) |-> tx_new_depth_one(outs[i], txid, depth).sent]),
     err |-> ""]

\* mutant: resolved outputs are not skipped
spent_candidates_resolved_too(outs, tx) ==
    {i \in 1..Len(outs) :
        /\ tx.input_index = outs[i].outnum
        /\ tx.input_txid = outs[i].txid}

\* mutant: the input's output index is not compared
spent_candidates_any_index(outs, tx) ==
    {i \in 1..Len(outs) :
        /\ outs[i].resolved = NULL
        /\ tx.input_txid = outs[i].txid}

\* the tracked outputs the for loop of output_spent does not skip
spent_candidates(outs, tx) ==
    {i \in 1..Len(outs) :
        /\ outs[i].resolved = NULL
        /\ tx.input_index = outs[i].outnum
        /\ tx.input_txid = outs[i].txid}

\* mutant: a spend of our HTLC is ignored like one of theirs
output_spent_one_our_htlc_ignored(out, tx) ==
    IF out.proposal = NULL
    THEN [out |-> out, err |-> "Crash"]
    ELSE IF resolved_by_proposal_ok(out, bitcoin_txid(tx))
    THEN [out |-> resolved_by_proposal(out, bitcoin_txid(tx)), err |-> ""]
    ELSE CASE out.output_type \in {"OUTPUT_TO_US", "DELAYED_OUTPUT_TO_US"} ->
                [out |-> unknown_spend(out, tx), err |-> ""]
           [] out.output_type = "THEIR_HTLC" ->
                [out |-> out, err |-> ""]
           [] out.output_type = "OUR_HTLC" ->
                [out |-> out, err |-> ""]
           [] out.output_type = "FUNDING_OUTPUT" ->
                [out |-> out, err |-> "InternalError"]
           [] out.output_type \in {"OUTPUT_TO_THEM", "DELAYED_OUTPUT_TO_THEM"} ->
                [out |-> out, err |-> "InternalError"]

\* mutant: a spend of their HTLC resolves it like one of our outputs
output_spent_one_their_htlc_unknown(out, tx) ==
    IF out.proposal = NULL
    THEN [out |-> out, err |-> "Crash"]
    ELSE IF resolved_by_proposal_ok(out, bitcoin_txid(tx))
    THEN [out |-> resolved_by_proposal(out, bitcoin_txid(tx)), err |-> ""]
    ELSE CASE out.output_type \in {"OUTPUT_TO_US", "DELAYED_OUTPUT_TO_US"} ->
                [out |-> unknown_spend(out, tx), err |-> ""]
           [] out.output_type = "THEIR_HTLC" ->
                [out |-> unknown_spend(out, tx), err |-> ""]
           [] out.output_type = "OUR_HTLC" ->
                [out |-> out, err |-> "InternalError"]
           [] out.output_type = "FUNDING_OUTPUT" ->
                [out |-> out, err |-> "InternalError"]
           [] out.output_type \in {"OUTPUT_TO_THEM", "DELAYED_OUTPUT_TO_THEM"} ->
                [out |-> out, err |-> "InternalError"]

\* what output_spent does with the first output it does not skip
output_spent_one(out, tx) ==
    IF out.proposal = NULL
    THEN [out |-> out, err |-> "Crash"]
    ELSE IF resolved_by_proposal_ok(out, bitcoin_txid(tx))
    THEN [out |-> resolved_by_proposal(out, bitcoin_txid(tx)), err |-> ""]
    ELSE CASE out.output_type \in {"OUTPUT_TO_US", "DELAYED_OUTPUT_TO_US"} ->
                [out |-> unknown_spend(out, tx), err |-> ""]
           [] out.output_type = "THEIR_HTLC" ->
                [out |-> out, err |-> ""]
           [] out.output_type = "OUR_HTLC" ->
                [out |-> out, err |-> "InternalError"]
           [] out.output_type = "FUNDING_OUTPUT" ->
                [out |-> out, err |-> "InternalError"]
           [] out.output_type \in {"OUTPUT_TO_THEM", "DELAYED_OUTPUT_TO_THEM"} ->
                [out |-> out, err |-> "InternalError"]

output_spent(outs, tx) ==
    LET cand == spent_candidates(outs, tx) IN
    IF cand = {}
    THEN [outs |-> outs, sent |-> unwatch_tx(tx), err |-> ""]
    ELSE LET i == CHOOSE i \in cand : \A k \in cand : i <= k
             r == output_spent_one(outs[i], tx)
         IN [outs |-> [outs EXCEPT ![i] = r.out], sent |-> <<>>, err |-> r.err]

\* mutant: the preimage is dropped and the loop goes on
handle_preimage_ignores(outs) == [outs |-> outs, sent |-> <<>>, err |-> ""]

handle_preimage(outs) == [outs |-> outs, sent |-> <<>>, err |-> "InternalError"]

\* the while condition of wait_for_resolved
wait_for_resolved(outs) == IF all_irrevocably_resolved(outs) THEN "done" ELSE "loop"

(***************************************************************************)
(* What the parent may send.                                               *)
(***************************************************************************)
RevocationsReceived == 1
HtlcRipemd == 7

ToSelfDelays == {MaxLow, IRREVOCABLE_DEPTH + MaxOver}
CltvExpiries == {0, MaxLow + 1, MaxLow + IRREVOCABLE_DEPTH + MaxOver}
TxBlockheights == {MaxLow}
Depths == (1..MaxLow) \cup ((IRREVOCABLE_DEPTH - 1)..(IRREVOCABLE_DEPTH + MaxOver))
CommitNums == 0..(RevocationsReceived + 2)

SeqsUpTo(S, n) == UNION {[1..k -> S] : k \in 0..n}

HtlcStubs == [owner : {LOCAL_SIDE, REMOTE_SIDE},
              ripemd : {HtlcRipemd},
              cltv_expiry : CltvExpiries]

\* the scripts a close tx built with `keyset` for `htlcs` can pay
OutputScripts(keyset, side, to_self_delay, htlcs) ==
    {CLOSING_LOCAL, CLOSING_REMOTE,
     scriptpubkey_p2wsh(to_self_wscript(to_self_delay, keyset)),
     scriptpubkey_p2wpkh(other_payment_key(keyset))}
    \cup {scriptpubkey_p2wsh(derive_htlc_scripts(htlcs, side, keyset)[j]) :
            j \in 1..Len(htlcs)}

\* the counterparty's signatures for the HTLC-timeout txs of our commitment:
\* one per output paying an offered-HTLC script, in output order, each
\* signed at feerate sig_feerate
HtlcSigs(tx, htlcs, to_self_delay, sig_feerate) ==
    LET scripts == derive_htlc_scripts(htlcs, LOCAL_SIDE, KS_LOCAL)
        stub(n) == CHOOSE j \in 1..Len(htlcs) :
                      /\ htlcs[j].owner = LOCAL_SIDE
                      /\ tx.output[n].script = scriptpubkey_p2wsh(scripts[j])
        offered == {n \in 1..Len(tx.output) :
                      \E j \in 1..Len(htlcs) :
                         /\ htlcs[j].owner = LOCAL_SIDE
                         /\ tx.output[n].script = scriptpubkey_p2wsh(scripts[j])}
        sig(n) == sign_tx_input(
                      htlc_timeout_tx(bitcoin_txid(tx), n - 1,
                                      tx.output[n].amount - htlc_timeout_fee(sig_feerate),
                                      htlcs[stub(n)].cltv_expiry, to_self_delay, KS_LOCAL),
                      scripts[stub(n)], other_payment_key(KS_LOCAL))
    IN Flatten([n \in 1..Len(tx.output) |-> IF n \in offered THEN <<sig(n)>> ELSE <<>>])

\* mutant: the pointer is not advanced
next_htlc_sig_stays(sigs) == sigs

\* htlc_sigs++: the pointer moves to the next signature (past the end of
\* the array it stays past the end)
next_htlc_sig(sigs) == IF sigs = <<>> THEN <<>> ELSE Tail(sigs)

\* a signature that verifies for nothing
BAD_SIG == [sighash |-> <<>>, key |-> 0]

VARIABLES
    pc,             \* where the process is: start, our_unilateral,
                    \* their_unilateral, loop, done (exit 0), failed
    err,            \* the error status_failed reported ("" if none)
    outs,           \* struct tracked_output **outs; outs[1] is C's outs[0]
    tx,             \* the tx that spent the funding output
    tx_blockheight,
    htlcs,          \* struct htlc_stub *htlcs; htlcs[1] is C's htlcs[0]
    to_self_delay,  \* the handler's to_self_delay
    keyset,         \* the keyset the handler derived
    script,         \* u8 *script[NUM_SIDES]; script[1] is C's script[LOCAL]
    htlc_scripts,   \* u8 **htlc_scripts
    htlc_sigs,      \* the signatures from the handler's htlc_sigs pointer on
    feerate_range,
    i,              \* the handler's output index (from 0)
    msg,            \* the last message read from the parent
    sent            \* what the last step wrote to the parent, in order

vars == <<pc, err, outs, tx, tx_blockheight, htlcs, to_self_delay, keyset,
          script, htlc_scripts, htlc_sigs, feerate_range, i, msg, sent>>

txid == bitcoin_txid(tx)

Init ==
    /\ pc = "start"
    /\ err = ""
    /\ outs = <<>>
    /\ tx = NO_TX
    /\ tx_blockheight = 0
    /\ htlcs = <<>>
    /\ to_self_delay = 0
    /\ keyset = 0
    /\ script = <<NULL, NULL>>
    /\ htlc_scripts = <<>>
    /\ htlc_sigs = <<>>
    /\ feerate_range = [min |-> 0, max |-> 0]
    /\ i = 0
    /\ msg = bad_message
    /\ sent = <<>>

\* mutant: the commitment number is looked at before our_broadcast_txid
classify_by_number_first(close_tx, our_broadcast_txid, revocations_received) ==
    IF is_mutual_close(close_tx, CLOSING_LOCAL, CLOSING_REMOTE) THEN "mutual"
    ELSE IF unmask_commit_number(close_tx) < revocations_received
         THEN "their_cheat"
    ELSE IF is_local_commitment(bitcoin_txid(close_tx), our_broadcast_txid)
         THEN "our_unilateral"
    ELSE IF unmask_commit_number(close_tx) = revocations_received
         THEN "their_unilateral_old"
    ELSE IF unmask_commit_number(close_tx) = revocations_received + 1
         THEN "their_unilateral_new"
    ELSE "unknown"

\* main()'s dispatch on the close tx
classify(close_tx, our_broadcast_txid, revocations_received) ==
    IF is_mutual_close(close_tx, CLOSING_LOCAL, CLOSING_REMOTE) THEN "mutual"
    ELSE IF is_local_commitment(bitcoin_txid(close_tx), our_broadcast_txid)
         THEN "our_unilateral"
    ELSE IF unmask_commit_number(close_tx) < revocations_received
         THEN "their_cheat"
    ELSE IF unmask_commit_number(close_tx) = revocations_received
         THEN "their_unilateral_old"
    ELSE IF unmask_commit_number(close_tx) = revocations_received + 1
         THEN "their_unilateral_new"
    ELSE "unknown"

\* pc once the handler's for loop has dealt with `done` outputs
handler_pc(handler, close_tx, done, o) ==
    IF done < Len(close_tx.output) THEN handler ELSE wait_for_resolved(o)

(***************************************************************************)
(* main(): read onchain_init and the HTLC stubs, track the funding output, *)
(* classify the close tx and run its handler up to the for loop over the   *)
(* commitment's outputs.                                                   *)
(***************************************************************************)
Main ==
    /\ pc = "start"
    /\ \E who \in {"us", "them"}, commit_num \in CommitNums, delay \in ToSelfDelays,
          stubs \in SeqsUpTo(HtlcStubs, MaxHtlcs), height \in TxBlockheights,
          commit_fee \in 0..MaxCommitFee, sig_feerate \in 0..MaxSigFeerate :
        /\ who = "us" => commit_num = 0
        /\ who = "them" => delay = MaxLow
        /\ LET builder == IF who = "us" THEN KS_LOCAL
                          ELSE IF commit_num = RevocationsReceived + 1
                               THEN KS_REMOTE_NEW ELSE KS_REMOTE_OLD
               side == IF who = "us" THEN LOCAL_SIDE ELSE REMOTE_SIDE
           IN \E scripts \in SeqsUpTo(OutputScripts(builder, side, delay, stubs), MaxOutputs) :
               \* no HTLC is trimmed: the close tx pays every stub's script
               /\ \A j \in 1..Len(stubs) : \E k \in 1..Len(scripts) :
                     scripts[k] = scriptpubkey_p2wsh(
                                      derive_htlc_scripts(stubs, side, builder)[j])
               /\ LET close_tx == [input_txid |-> FUNDING_TXID,
                                input_index |-> 0,
                                sequence_number |-> 0,
                                lock_time |-> commit_num,
                                output |-> [k \in 1..Len(scripts) |->
                                              [amount |-> OutputSatoshi,
                                               script |-> scripts[k]]]]
                   our_broadcast_txid ==
                       IF who = "us" THEN bitcoin_txid(close_tx) ELSE UNRELATED_TXID
                   kind == classify(close_tx, our_broadcast_txid, RevocationsReceived)
                   funding == new_tracked_output(
                                  <<>>, close_tx.input_txid, 0, "FUNDING_TRANSACTION",
                                  close_tx.input_index,
                                  SumAmounts(close_tx.output) + commit_fee,
                                  "FUNDING_OUTPUT")
                   resolved(tx_type) ==
                       [funding EXCEPT ![1] =
                           resolved_by_other(funding[1], bitcoin_txid(close_tx), tx_type)]
                  IN /\ tx' = close_tx
                     /\ tx_blockheight' = height
                     /\ htlcs' = stubs
                     /\ msg' = onchain_init(close_tx, our_broadcast_txid)
                     /\ i' = 0
                     /\ CASE kind = "mutual" ->
                               /\ sent' = <<towire_onchain_init_reply("ONCHAIND_MUTUAL")>>
                               /\ outs' = resolved("MUTUAL_CLOSE")
                               /\ pc' = wait_for_resolved(outs')
                               /\ err' = ""
                               /\ UNCHANGED <<to_self_delay, keyset, script, htlc_scripts,
                                              htlc_sigs, feerate_range>>
                          [] kind = "our_unilateral" ->
                               /\ sent' = <<towire_onchain_init_reply("ONCHAIND_OUR_UNILATERAL")>>
                               /\ feerate_range' = init_feerate_range(funding[1].satoshi, close_tx)
                               /\ outs' = resolved("OUR_UNILATERAL")
                               /\ to_self_delay' = delay
                               /\ keyset' = KS_LOCAL
                               /\ script' = <<scriptpubkey_p2wsh(to_self_wscript(delay, KS_LOCAL)),
                                              scriptpubkey_p2wpkh(other_payment_key(KS_LOCAL))>>
                               /\ htlc_scripts' = derive_htlc_scripts(stubs, LOCAL_SIDE, KS_LOCAL)
                               /\ htlc_sigs' = HtlcSigs(close_tx, stubs, delay, sig_feerate * SigFeerateStep)
                               /\ pc' = handler_pc("our_unilateral", close_tx, 0, outs')
                               /\ err' = ""
                          [] kind \in {"their_unilateral_old", "their_unilateral_new"} ->
                               LET ks == IF kind = "their_unilateral_old"
                                         THEN KS_REMOTE_OLD ELSE KS_REMOTE_NEW
                               IN /\ sent' = <<towire_onchain_init_reply("ONCHAIND_THEIR_UNILATERAL")>>
                                  /\ feerate_range' = init_feerate_range(funding[1].satoshi, close_tx)
                                  /\ outs' = resolved("THEIR_UNILATERAL")
                                  /\ to_self_delay' = delay
                                  /\ keyset' = ks
                                  /\ script' = <<scriptpubkey_p2wpkh(other_payment_key(ks)),
                                                 scriptpubkey_p2wsh(to_self_wscript(delay, ks))>>
                                  /\ htlc_scripts' = derive_htlc_scripts(stubs, REMOTE_SIDE, ks)
                                  /\ htlc_sigs' = <<>>
                                  /\ pc' = handler_pc("their_unilateral", close_tx, 0, outs')
                                  /\ err' = ""
                          [] OTHER ->
                               /\ sent' = <<>>
                               /\ outs' = funding
                               /\ pc' = "failed"
                               /\ err' = "InternalError"
                               /\ UNCHANGED <<to_self_delay, keyset, script, htlc_scripts,
                                              htlc_sigs, feerate_range>>

\* status_failed: the process exits with the error, the store as it was
Fail(kind) ==
    /\ pc' = "failed"
    /\ err' = kind
    /\ sent' = <<>>
    /\ UNCHANGED <<outs, tx, tx_blockheight, htlcs, to_self_delay, keyset,
                   script, htlc_scripts, htlc_sigs, feerate_range, i>>

(***************************************************************************)
(* One iteration of handle_our_unilateral's loop over the commitment's     *)
(* outputs, and wait_for_resolved's first test after the last one.         *)
(***************************************************************************)
OurUnilateralOutput ==
    /\ pc = "our_unilateral"
    /\ msg' = msg
    /\ LET output == tx.output[i + 1]
           j == match_htlc_output(tx, i, htlc_scripts)
           tracked(output_type) ==
               new_tracked_output(outs, txid, tx_blockheight, "OUR_UNILATERAL",
                                  i, output.amount, output_type)
           out(output_type) == tracked(output_type)[Len(outs) + 1]
           next(o) ==
               /\ outs' = o
               /\ i' = i + 1
               /\ pc' = handler_pc("our_unilateral", tx, i + 1, o)
               /\ err' = ""
               /\ sent' = <<>>
               /\ UNCHANGED <<tx, tx_blockheight, htlcs, to_self_delay, keyset>>
       IN IF script[1] # NULL /\ scripteq(output.script, script[1])
          THEN LET to_us == tx_to_us(out("DELAYED_OUTPUT_TO_US"), to_self_delay, 0,
                                     FeeratePerKw, LocalDustLimit,
                                     to_self_wscript(to_self_delay, keyset), WALLET_KEY)
               IN /\ next(Append(outs,
                            propose_resolution(out("DELAYED_OUTPUT_TO_US"), Ptr(to_us),
                                               to_self_delay,
                                               "OUR_UNILATERAL_TO_US_RETURN_TO_WALLET")))
                  /\ script' = [script EXCEPT ![1] = NULL]
                  /\ UNCHANGED <<htlc_scripts, htlc_sigs, feerate_range>>
          ELSE IF script[2] # NULL /\ scripteq(output.script, script[2])
          THEN /\ next(Append(outs, ignore_output(out("OUTPUT_TO_THEM"))))
               /\ script' = [script EXCEPT ![2] = NULL]
               /\ UNCHANGED <<htlc_scripts, htlc_sigs, feerate_range>>
          ELSE IF j = -1
          THEN Fail("InternalError")
          ELSE IF htlcs[j + 1].owner = LOCAL_SIDE
          THEN \* htlc_sigs is read where the pointer stands; past the end of
               \* the array no signature of the counterparty is there
               LET remotesig == IF htlc_sigs = <<>> THEN BAD_SIG ELSE Head(htlc_sigs)
                   r == resolve_our_htlc_ourcommit(out("OUR_HTLC"), htlcs[j + 1],
                                                   to_self_delay, feerate_range,
                                                   remotesig, keyset)
               IN IF r.ok
                  THEN /\ next(Append(outs, r.out))
                       /\ feerate_range' = r.feerate_range
                       /\ htlc_sigs' = next_htlc_sig(htlc_sigs)
                       /\ htlc_scripts' = [htlc_scripts EXCEPT ![j + 1] = NULL]
                       /\ UNCHANGED script
                  ELSE Fail("InternalError")
          ELSE /\ next(Append(outs, resolve_their_htlc(out("THEIR_HTLC"), htlcs[j + 1])))
               /\ htlc_scripts' = [htlc_scripts EXCEPT ![j + 1] = NULL]
               /\ UNCHANGED <<script, htlc_sigs, feerate_range>>

(***************************************************************************)
(* One iteration of handle_their_unilateral's loop.  script[REMOTE] stays  *)
(* set once matched, and the HTLC stub handed to                           *)
(* resolve_our_htlc_theircommit is htlcs[i], i the output's index: past    *)
(* the end of htlcs what is read there is any stub.                        *)
(***************************************************************************)
TheirUnilateralOutput ==
    /\ pc = "their_unilateral"
    /\ msg' = msg
    /\ LET output == tx.output[i + 1]
           j == match_htlc_output(tx, i, htlc_scripts)
           tracked(output_type) ==
               new_tracked_output(outs, txid, tx_blockheight, "THEIR_UNILATERAL",
                                  i, output.amount, output_type)
           out(output_type) == tracked(output_type)[Len(outs) + 1]
           next(o) ==
               /\ outs' = o
               /\ i' = i + 1
               /\ pc' = handler_pc("their_unilateral", tx, i + 1, o)
               /\ err' = ""
               /\ sent' = <<>>
               /\ UNCHANGED <<tx, tx_blockheight, htlcs, to_self_delay, keyset,
                              htlc_sigs, feerate_range>>
       IN IF script[1] # NULL /\ scripteq(output.script, script[1])
          THEN /\ next(Append(outs, ignore_output(out("OUTPUT_TO_US"))))
               /\ script' = [script EXCEPT ![1] = NULL]
               /\ UNCHANGED htlc_scripts
          ELSE IF script[2] # NULL /\ scripteq(output.script, script[2])
          THEN /\ next(Append(outs, ignore_output(out("DELAYED_OUTPUT_TO_THEM"))))
               /\ UNCHANGED <<script, htlc_scripts>>
          ELSE IF j = -1
          THEN Fail("InternalError")
          ELSE IF htlcs[j + 1].owner = LOCAL_SIDE
          THEN \E htlc \in IF i < Len(htlcs) THEN {htlcs[i + 1]} ELSE HtlcStubs :
                  /\ next(Append(outs,
                        resolve_our_htlc_theircommit(out("OUR_HTLC"), htlc_scripts[j + 1],
                                                     htlc, WALLET_KEY, FeeratePerKw,
                                                     LocalDustLimit)))
                  /\ htlc_scripts' = [htlc_scripts EXCEPT ![j + 1] = NULL]
                  /\ UNCHANGED script
          ELSE /\ next(Append(outs, resolve_their_htlc(out("THEIR_HTLC"), htlcs[j + 1])))
               /\ htlc_scripts' = [htlc_scripts EXCEPT ![j + 1] = NULL]
               /\ UNCHANGED script

(***************************************************************************)
(* wait_for_resolved: one message read and handled, then the loop's test.  *)
(***************************************************************************)
THIRD_PARTY_KEY == 0

\* a tx of somebody else that spends output `index` of `input_txid`
OtherTx(input_txid, index) ==
    [input_txid |-> input_txid, input_index |-> index, sequence_number |-> 0,
     lock_time |-> 0,
     output |-> <<[amount |-> 0, script |-> scriptpubkey_p2wpkh(THIRD_PARTY_KEY)]>>]

ProposedTxs ==
    {Deref(Deref(outs[k].proposal).tx) :
        k \in {n \in 1..Len(outs) :
                 outs[n].proposal # NULL /\ Deref(outs[n].proposal).tx # NULL}}

\* the txs the parent reports as spending something: the proposed txs, and
\* another spender of the funding output, of each output of the close tx,
\* and of an output not tracked
SpendTxs ==
    ProposedTxs
    \cup {OtherTx(FUNDING_TXID, tx.input_index), OtherTx(UNRELATED_TXID, 0)}
    \cup {OtherTx(txid, n - 1) : n \in 1..Len(tx.output)}

\* the txs the parent reports depths of: the close tx, every tx that
\* resolved an output, and a tx not tracked
DepthTxids ==
    {UNRELATED_TXID, txid}
    \cup {Deref(outs[k].resolved).txid : k \in {n \in 1..Len(outs) : outs[n].resolved # NULL}}

\* what a handled message leaves behind
Handled(m, r) ==
    /\ msg' = m
    /\ outs' = r.outs
    /\ sent' = r.sent
    /\ err' = r.err
    /\ pc' = IF r.err # "" THEN "failed" ELSE wait_for_resolved(r.outs)
    /\ UNCHANGED <<tx, tx_blockheight, htlcs, to_self_delay, keyset, script,
                   htlc_scripts, htlc_sigs, feerate_range, i>>

RecvDepth ==
    /\ pc = "loop"
    /\ \E t \in DepthTxids, depth \in Depths :
          Handled(onchain_depth(t, depth), tx_new_depth(outs, t, depth))

RecvSpent ==
    /\ pc = "loop"
    /\ \E t \in SpendTxs :
          Handled(onchain_spent(t), output_spent(outs, t))

RecvKnownPreimage ==
    /\ pc = "loop"
    /\ Handled(onchain_known_preimage, handle_preimage(outs))

RecvBadMessage ==
    /\ pc = "loop"
    /\ Handled(bad_message, [outs |-> outs, sent |-> <<>>, err |-> "BadCommand"])

Next ==
    \/ Main
    \/ OurUnilateralOutput
    \/ TheirUnilateralOutput
    \/ RecvDepth
    \/ RecvSpent
    \/ RecvKnownPreimage
    \/ RecvBadMessage

Spec == Init /\ [][Next]_vars

(***************************************************************************)
(* The claims.                                                             *)
(***************************************************************************)
Tracked == 1..Len(outs)
IsResolved(out) == out.resolved # NULL
Resolution(out) == Deref(out.resolved)
Proposal(out) == Deref(out.proposal)
InLoopOrAfter == pc \in {"loop", "done", "failed"} /\ i = Len(tx.output)
IsBroadcastOf(m, out) ==
    /\ m.type = "onchain_broadcast_tx"
    /\ out.proposal # NULL
    /\ Proposal(out).tx # NULL
    /\ m.tx = Deref(Proposal(out).tx)
BroadcastSentFor(out) == \E n \in 1..Len(sent) : IsBroadcastOf(sent[n], out)

AllResolvedDeep ==
    \A k \in Tracked :
        IsResolved(outs[k]) /\ Resolution(outs[k]).depth >= IRREVOCABLE_DEPTH

\* C1: the loop has exited exactly when every tracked output is resolved at
\* depth >= 100, and all_irrevocably_resolved says exactly that of the
\* store; in particular it never exits while an output is unresolved.
C1_LoopExitsIffAllResolved ==
    pc \in {"loop", "done"} =>
        /\ all_irrevocably_resolved(outs) <=> AllResolvedDeep
        /\ pc = "done" <=> AllResolvedDeep

\* C2: in every step an output that is resolved stays resolved, with the
\* same spender txid and tx_type (only its depth may change).
C2_ResolvedStaysResolved ==
    [][\A k \in Tracked :
          IsResolved(outs[k]) =>
              /\ k <= Len(outs')
              /\ IsResolved(outs'[k])
              /\ Resolution(outs'[k]).txid = Resolution(outs[k]).txid
              /\ Resolution(outs'[k]).tx_type = Resolution(outs[k]).tx_type]_vars

\* C2's case: an output resolved by the tx proposed for it has since had
\* its depth raised, and the parent has reported another tx spending it.
C2_Witness ==
    /\ pc = "loop"
    /\ msg.type = "onchain_spent"
    /\ \E k \in Tracked :
          /\ IsResolved(outs[k])
          /\ Resolution(outs[k]).tx_type = "OUR_UNILATERAL_TO_US_RETURN_TO_WALLET"
          /\ Resolution(outs[k]).depth > 0
          /\ msg.tx.input_txid = outs[k].txid
          /\ msg.tx.input_index = outs[k].outnum
          /\ bitcoin_txid(msg.tx) # Resolution(outs[k]).txid

\* C3: once the close is classified, a spend notification whose input is
\* the funding output ends the engine with InternalError.
C3_FundingRespendIsFatal ==
    (/\ pc \in {"loop", "done", "failed"}
     /\ msg.type = "onchain_spent"
     /\ msg.tx.input_txid = outs[1].txid
     /\ msg.tx.input_index = outs[1].outnum)
    => (pc = "failed" /\ err = "InternalError")

\* C4's close: ours, the commitment paying script[LOCAL] and script[REMOTE]
C4_Close ==
    /\ InLoopOrAfter
    /\ keyset = KS_LOCAL
    /\ Len(tx.output) = 2
    /\ {tx.output[1].script, tx.output[2].script}
         = {scriptpubkey_p2wsh(to_self_wscript(to_self_delay, KS_LOCAL)),
            scriptpubkey_p2wpkh(other_payment_key(KS_LOCAL))}

C4_Delayed == CHOOSE k \in Tracked : outs[k].output_type = "DELAYED_OUTPUT_TO_US"

\* C4: on that close, for any to_self_delay, both commitment outputs are
\* tracked; the delayed one holds a proposal with a sweep tx, depth_required
\* = to_self_delay and tx-type OUR_UNILATERAL_TO_US_RETURN_TO_WALLET; a depth
\* update of the commitment txid equal to to_self_delay emits the broadcast
\* of the sweep; after the broadcast the engine is still there to read the
\* spend notification, and one carrying the proposed txid resolves the
\* output with the proposal's tx-type.
C4_OurUnilateralSweep ==
    C4_Close =>
        LET out == outs[C4_Delayed] IN
        /\ Len(outs) = 3
        /\ {outs[2].outnum, outs[3].outnum} = {0, 1}
        /\ \E k \in Tracked : outs[k].output_type = "DELAYED_OUTPUT_TO_US"
        /\ out.proposal # NULL
        /\ Proposal(out).tx # NULL
        /\ Proposal(out).depth_required = to_self_delay
        /\ Proposal(out).tx_type = "OUR_UNILATERAL_TO_US_RETURN_TO_WALLET"
        /\ (msg = onchain_depth(txid, to_self_delay) /\ ~IsResolved(out))
             => sent = <<towire_onchain_broadcast_tx(Deref(Proposal(out).tx))>>
        /\ (msg = onchain_depth(txid, to_self_delay) /\ ~IsResolved(out))
             => pc = "loop"
        /\ (/\ msg.type = "onchain_spent"
            /\ bitcoin_txid(msg.tx) = bitcoin_txid(Deref(Proposal(out).tx))
            /\ sent = <<>>)
             => out.resolved = Ptr([txid |-> bitcoin_txid(msg.tx),
                                    depth |-> 0,
                                    tx_type |-> Proposal(out).tx_type])

\* the cltv_expiry of the stub whose received-HTLC script output k pays
C5_MatchedExpiry(out) ==
    LET j == CHOOSE j \in 1..Len(htlcs) :
                 tx.output[out.outnum + 1].script
                   = scriptpubkey_p2wsh(derive_htlc_scripts(htlcs, REMOTE_SIDE, keyset)[j])
    IN htlcs[j].cltv_expiry

\* C5: on their unilateral close every THEIR_HTLC output holds a proposal
\* without tx, of type THEIR_HTLC_TIMEOUT_TO_THEM, due at the matched stub's
\* cltv_expiry; a depth update of the commitment txid that reaches
\* depth_required leaves it ignored (tx_type SELF, its own txid) with no
\* broadcast; and this for any cltv_expiry: the engine does not end its
\* loop before the output is ignored.
C5_TheirHtlcIgnoredAtDepth ==
    (keyset \in {KS_REMOTE_OLD, KS_REMOTE_NEW}) =>
        \A k \in Tracked :
            outs[k].output_type = "THEIR_HTLC" =>
                /\ outs[k].proposal # NULL
                /\ Proposal(outs[k]).tx = NULL
                /\ Proposal(outs[k]).tx_type = "THEIR_HTLC_TIMEOUT_TO_THEM"
                /\ Proposal(outs[k]).depth_required
                     = Max(0, C5_MatchedExpiry(outs[k]) - outs[k].tx_blockheight)
                /\ (/\ msg.type = "onchain_depth"
                    /\ msg.txid = outs[k].txid
                    /\ msg.depth >= Proposal(outs[k]).depth_required)
                     => IsResolved(outs[k])
                /\ IsResolved(outs[k]) =>
                     /\ Resolution(outs[k]).tx_type = "SELF"
                     /\ Resolution(outs[k]).txid = outs[k].txid
                /\ \A n \in 1..Len(sent) : sent[n].type # "onchain_broadcast_tx"
                                           \/ sent[n].tx.input_index # outs[k].outnum
                /\ pc = "done" => IsResolved(outs[k])

IsMutualClose == pc # "start" /\ is_mutual_close(tx, CLOSING_LOCAL, CLOSING_REMOTE)

\* C6: on a mutual close the funding output is the only tracked output,
\* ever; it is resolved by MUTUAL_CLOSE with the close tx's txid, at depth 0
\* when the loop starts; and the loop has exited exactly when the last
\* message read is a depth update for that txid with depth >= 100.
C6_MutualClose ==
    IsMutualClose =>
        /\ Len(outs) = 1
        /\ outs[1].output_type = "FUNDING_OUTPUT"
        /\ IsResolved(outs[1])
        /\ Resolution(outs[1]).tx_type = "MUTUAL_CLOSE"
        /\ Resolution(outs[1]).txid = txid
        /\ msg.type = "onchain_init" => Resolution(outs[1]).depth = 0
        /\ pc = "done" <=> (/\ msg.type = "onchain_depth"
                            /\ msg.txid = txid
                            /\ msg.depth >= IRREVOCABLE_DEPTH)

\* C6's case: a mutual close paying somebody, its loop over
C6_Witness ==
    /\ IsMutualClose
    /\ Len(tx.output) >= 1
    /\ pc = "done"
    /\ msg = onchain_depth(txid, IRREVOCABLE_DEPTH)

\* no unresolved tracked output is the input of t
C7_NoMatch(o, t) ==
    ~ \E k \in 1..Len(o) :
          /\ o[k].resolved = NULL
          /\ o[k].txid = t.input_txid
          /\ o[k].outnum = t.input_index

\* C7: a spend notification whose input is no unresolved tracked output
\* makes the engine send one onchain_unwatch_tx, for the spending tx's
\* txid and its number of outputs, nothing else, and leaves every tracked
\* output as it was.
C7_IrrelevantSpendUnwatched ==
    [][(pc = "loop" /\ msg'.type = "onchain_spent" /\ C7_NoMatch(outs, msg'.tx))
         => /\ sent' = <<[type |-> "onchain_unwatch_tx", state |-> "", tx |-> NO_TX,
                          txid |-> bitcoin_txid(msg'.tx),
                          num_outputs |-> Len(msg'.tx.output)]>>
            /\ outs' = outs
            /\ err' = ""]_vars

\* C7's case: the spend of an output of the close tx that is resolved
\* already was unwatched while another output of it is unresolved
C7_Witness ==
    /\ msg.type = "onchain_spent"
    /\ msg.tx.input_txid = txid
    /\ Len(sent) = 1
    /\ sent[1].type = "onchain_unwatch_tx"
    /\ \E k \in Tracked : ~IsResolved(outs[k]) /\ outs[k].txid = txid

\* C8 as stated: no step lowers the depth of a resolution.
C8_DepthNeverDecreases ==
    [][\A k \in Tracked :
          IsResolved(outs[k]) =>
              Resolution(outs'[k]).depth >= Resolution(outs[k]).depth]_vars

\* C8: a depth update for the txid of an output's resolution sets the
\* resolution's depth to the depth reported, and no other step changes it;
\* so the depth does not decrease in a step unless the parent reports, for
\* that txid, a depth lower than the one recorded.
C8_DepthIsTheDepthReported ==
    [][\A k \in Tracked :
          IsResolved(outs[k]) =>
              LET before == Resolution(outs[k]).depth
                  after == Resolution(outs'[k]).depth
                  reported == /\ pc = "loop"
                              /\ msg'.type = "onchain_depth"
                              /\ msg'.txid = Resolution(outs[k]).txid
              IN /\ reported => after = msg'.depth
                 /\ ~reported => after = before
                 /\ (reported => msg'.depth >= before) => after >= before]_vars

\* C8's case: an output ignored when tracked whose resolution carries the
\* depth the parent reported last, next to a txid whose depth is not it
C8_Witness ==
    /\ pc = "loop"
    /\ msg.type = "onchain_depth"
    /\ \E k \in Tracked :
          /\ k > 1
          /\ IsResolved(outs[k])
          /\ Resolution(outs[k]).txid = msg.txid
          /\ Resolution(outs[k]).depth = msg.depth
          /\ msg.depth > 0
    /\ \E k \in Tracked :
          /\ IsResolved(outs[k])
          /\ Resolution(outs[k]).txid # msg.txid
          /\ Resolution(outs[k]).depth # msg.depth

\* a resolution is SELF with the output's own txid, or not SELF with
\* another txid
C9_Shape ==
    \A k \in Tracked :
        IsResolved(outs[k]) =>
            ((Resolution(outs[k]).tx_type = "SELF")
                <=> (Resolution(outs[k]).txid = outs[k].txid))

\* a resolution that is not SELF is made from the tx the message just read
\* delivers, the init message or a spend notification, and has that tx's
\* txid; the tx's input is the output
C9_Step ==
    \A k \in 1..Len(outs') :
        (/\ IsResolved(outs'[k])
         /\ (k <= Len(outs) => ~IsResolved(outs[k]))
         /\ Resolution(outs'[k]).tx_type # "SELF")
        => /\ msg'.type \in {"onchain_init", "onchain_spent"}
           /\ msg'.type = "onchain_init" <=> k = 1
           /\ Resolution(outs'[k]).txid = bitcoin_txid(msg'.tx)
           /\ msg'.tx.input_txid = outs'[k].txid
           /\ msg'.tx.input_index = outs'[k].outnum

\* C9: every resolved output is ignored (tx_type SELF, the resolution's
\* txid its own txid) or resolved by its spender (tx_type not SELF, the
\* resolution's txid that of the tx the init message or a spend
\* notification delivered as spending it), never both.
C9_ResolutionShapes == [][C9_Shape' /\ C9_Step]_vars

\* C9's case: one output ignored, another resolved by a spender nobody
\* proposed
C9_Witness ==
    /\ \E k \in Tracked :
          IsResolved(outs[k]) /\ Resolution(outs[k]).tx_type = "SELF"
    /\ \E k \in Tracked :
          /\ IsResolved(outs[k])
          /\ Resolution(outs[k]).tx_type = "UNKNOWN_TXTYPE"
          /\ msg.type = "onchain_spent"
          /\ Resolution(outs[k]).txid = bitcoin_txid(msg.tx)

\* C10: no step changes the proposal of an output already tracked, be it
\* set or not (an output is proposed for in the step that tracks it, once),
\* and the funding output has none.
C10_ProposalsSetOnce ==
    [][/\ \A k \in Tracked :
             k <= Len(outs') /\ outs'[k].proposal = outs[k].proposal
       /\ Len(outs') >= 1 =>
             (outs'[1].output_type = "FUNDING_OUTPUT" /\ outs'[1].proposal = NULL)]_vars

\* C10's case: a proposal has met its depth and been broadcast, the output
\* still unresolved
C10_Witness ==
    /\ pc = "loop"
    /\ msg.type = "onchain_depth"
    /\ \E k \in Tracked :
          /\ ~IsResolved(outs[k])
          /\ outs[k].proposal # NULL
          /\ BroadcastSentFor(outs[k])

\* the HTLC stub the handler matches commitment output i with
C11_Htlc == htlcs[match_htlc_output(tx, i, htlc_scripts) + 1]

\* handle_our_unilateral is about to resolve an HTLC we offered
C11_OurHtlcNext ==
    /\ pc = "our_unilateral"
    /\ ~(script[1] # NULL /\ scripteq(tx.output[i + 1].script, script[1]))
    /\ ~(script[2] # NULL /\ scripteq(tx.output[i + 1].script, script[2]))
    /\ match_htlc_output(tx, i, htlc_scripts) # -1
    /\ C11_Htlc.owner = LOCAL_SIDE
    /\ htlc_sigs # <<>>

\* the counterparty's signature is one for the HTLC-timeout tx paying fee
C11_ValidatesAtFee(fee) ==
    /\ fee <= tx.output[i + 1].amount
    /\ Head(htlc_sigs) =
         [sighash |-> bitcoin_txid(
                          [input_txid |-> txid, input_index |-> i,
                           sequence_number |-> 0,
                           lock_time |-> C11_Htlc.cltv_expiry,
                           output |-> <<[amount |-> tx.output[i + 1].amount - fee,
                                         script |-> scriptpubkey_p2wsh(
                                             to_self_wscript(to_self_delay, keyset))]>>])
                      \o htlc_offered_wscript(C11_Htlc.ripemd, keyset),
          key |-> other_payment_key(keyset)]

\* the feerates of the current range the signature validates at
C11_ValidFeerates ==
    {F \in feerate_range.min..feerate_range.max :
        C11_ValidatesAtFee((HTLC_TIMEOUT_WEIGHT * F) \div 1000)}

\* what C11 says of the proposal made: the HTLC-timeout tx paying the fee
\* of F, due at block cltv_expiry
C11_ProposalAtFeerate(out, F) ==
    /\ out.output_type = "OUR_HTLC"
    /\ out.proposal # NULL
    /\ Deref(out.proposal).tx_type = "OUR_HTLC_TIMEOUT_TO_US"
    /\ Deref(out.proposal).depth_required
         = Max(0, C11_Htlc.cltv_expiry - tx_blockheight)
    /\ Deref(out.proposal).tx # NULL
    /\ Deref(Deref(out.proposal).tx).output[1].amount
         = tx.output[i + 1].amount - (HTLC_TIMEOUT_WEIGHT * F) \div 1000

\* C11: when resolve_our_htlc_ourcommit is given a signature that validates
\* at the fee of exactly one feerate F of the current FeerateRange, it
\* finds F, proposes the HTLC-timeout tx at that fee for block cltv_expiry,
\* and leaves the FeerateRange with min = max = F.
C11_SingleFeerateNarrowsToIt ==
    [][C11_OurHtlcNext =>
          \A F \in C11_ValidFeerates :
              C11_ValidFeerates = {F}
              => /\ pc' # "failed"
                 /\ Len(outs') = Len(outs) + 1
                 /\ C11_ProposalAtFeerate(outs'[Len(outs')], F)
                 /\ feerate_range' = [min |-> F, max |-> F]]_vars

\* the signatures the parent supplied with the close tx: one per output
\* paying the script of an HTLC we offered
C12_Supplied == Len(HtlcSigs(tx, htlcs, to_self_delay, 0))
C12_OurHtlcsTracked == Cardinality({k \in Tracked : outs[k].output_type = "OUR_HTLC"})

MaxNarrowFees == 12
NarrowFeeStep == 250
NarrowFees == {k * NarrowFeeStep : k \in 0..MaxNarrowFees}
\* the ranges init_feerate_range leaves for a commitment fee
NarrowRanges == {init_feerate_range(fee, NO_TX) : fee \in {0, 2 * NarrowFeeStep * MaxNarrowFees}}

\* the txs is_mutual_close is asked about, and the closing scriptpubkeys of
\* the two sides, which may be the same script
MaxMutualOutputs == 3
ClosingScripts == {CLOSING_LOCAL, CLOSING_REMOTE}
MutualTxs ==
    {[NO_TX EXCEPT !.input_txid = FUNDING_TXID, !.output = o] :
        o \in SeqsUpTo({[amount |-> OutputSatoshi, script |-> s] :
                           s \in ClosingScripts \cup {scriptpubkey_p2wpkh(THIRD_PARTY_KEY)}},
                      MaxMutualOutputs)}

\* block numbers: small ones, the ones around the irrevocable depth, ones
\* of a real chain and the largest that TLC's integers hold
BlockNumbers ==
    {0, 1, MaxLow + 1, IRREVOCABLE_DEPTH, IRREVOCABLE_DEPTH + MaxOver,
     500000, 500000 + MaxLow, 500000 + IRREVOCABLE_DEPTH + MaxOver,
     2147483646, 2147483647}

\* unresolved outputs with the proposals the handlers make: a sweep of our
\* delayed output, an HTLC-timeout tx, and an ignore without a tx
ProposedOutputs ==
    LET out(outnum, output_type) ==
            new_tracked_output(<<>>, UNRELATED_TXID, MaxLow, "OUR_UNILATERAL",
                               outnum, OutputSatoshi, output_type)[1]
    IN {propose_resolution(
            out(n, "DELAYED_OUTPUT_TO_US"),
            Ptr(tx_to_us(out(n, "DELAYED_OUTPUT_TO_US"), delay, 0, FeeratePerKw, dust,
                         to_self_wscript(delay, KS_LOCAL), WALLET_KEY)),
            delay, "OUR_UNILATERAL_TO_US_RETURN_TO_WALLET") :
          n \in 0..MaxOutputs, delay \in ToSelfDelays, dust \in {0, LocalDustLimit}}
       \cup {propose_resolution_at_block(
                 out(n, "OUR_HTLC"),
                 Ptr(htlc_timeout_tx(UNRELATED_TXID, n, OutputSatoshi - htlc_timeout_fee(f * SigFeerateStep),
                                     cltv, MaxLow, KS_LOCAL)),
                 cltv, "OUR_HTLC_TIMEOUT_TO_US") :
               n \in 0..MaxOutputs, cltv \in CltvExpiries, f \in 0..MaxSigFeerate}
       \cup {resolve_their_htlc(out(n, "THEIR_HTLC"), [owner |-> REMOTE_SIDE, ripemd |-> HtlcRipemd, cltv_expiry |-> cltv]) :
               n \in 0..MaxOutputs, cltv \in CltvExpiries}

\* the txs reported as spending such an output: the proposed txs, and
\* somebody else's spend of each output
ProposalSpendTxs ==
    {Deref(Deref(out.proposal).tx) : out \in {o \in ProposedOutputs : Deref(o.proposal).tx # NULL}}
    \cup {OtherTx(UNRELATED_TXID, n) : n \in 0..MaxOutputs}

\* what resolve_our_htlc_ourcommit is given: an OUR_HTLC output of our
\* commitment holding OutputSatoshi or too little for the fee, a feerate
\* range (one of them empty, min > max), and the counterparty's signature
\* for the HTLC-timeout tx at some feerate it can afford, or a bad one
SmallSatoshi == 600
OurHtlcOutputs ==
    {new_tracked_output(<<>>, UNRELATED_TXID, MaxLow, "OUR_UNILATERAL", n, satoshi, "OUR_HTLC")[1] :
        n \in 0..MaxOutputs, satoshi \in {OutputSatoshi, SmallSatoshi}}
OurHtlcStubs == {h \in HtlcStubs : h.owner = LOCAL_SIDE}
FeerateRanges ==
    {[min |-> 0, max |-> (MaxSigFeerate + 1) * SigFeerateStep],
     [min |-> 0, max |-> SigFeerateStep - 1],
     [min |-> SigFeerateStep - 1, max |-> SigFeerateStep + 1],
     [min |-> SigFeerateStep + 1, max |-> SigFeerateStep]}
RemoteSigs(out, htlc, delay) ==
    {BAD_SIG}
    \cup {sign_tx_input(htlc_timeout_tx(out.txid, out.outnum,
                                        out.satoshi - htlc_timeout_fee(f * SigFeerateStep),
                                        htlc.cltv_expiry, delay, KS_LOCAL),
                        htlc_offered_wscript(htlc.ripemd, KS_LOCAL),
                        other_payment_key(KS_LOCAL)) :
            f \in {g \in 0..MaxSigFeerate : htlc_timeout_fee(g * SigFeerateStep) <= out.satoshi}}

\* what tx_to_us is given: an output of ours of any amount up to
\* OutputSatoshi, the witness script that spends it, and a feerate
SweepOutputs ==
    {new_tracked_output(<<>>, UNRELATED_TXID, MaxLow, tx_type, 0, satoshi, output_type)[1] :
        satoshi \in 0..OutputSatoshi,
        tx_type \in {"OUR_UNILATERAL", "THEIR_UNILATERAL"},
        output_type \in {"DELAYED_OUTPUT_TO_US", "OUR_HTLC"}}
SweepFeerates == {(k * FeeratePerKw) \div 2 : k \in 0..4}
SweepWscripts ==
    {to_self_wscript(delay, KS_LOCAL) : delay \in ToSelfDelays}
    \cup {htlc_received_wscript(HtlcRipemd, cltv, KS_REMOTE_NEW) : cltv \in CltvExpiries}

FunctionsInit ==
    /\ err = ""
    /\ tx_blockheight = 0
    /\ htlcs = <<>>
    /\ to_self_delay = 0
    /\ keyset = 0
    /\ htlc_scripts = <<>>
    /\ htlc_sigs = <<>>
    /\ i = 0
    /\ msg = bad_message
    /\ sent = <<>>
    /\ \/ /\ pc = "narrow_feerate_range"
          /\ feerate_range \in NarrowRanges
          /\ tx = NO_TX
          /\ script = <<NULL, NULL>>
          /\ outs = <<>>
       \/ /\ pc = "is_mutual_close"
          /\ feerate_range = [min |-> 0, max |-> 0]
          /\ tx \in MutualTxs
          /\ script \in ClosingScripts \X ClosingScripts
          /\ outs = <<>>
       \/ /\ pc = "propose_resolution_at_block"
          /\ feerate_range = [min |-> 0, max |-> 0]
          /\ tx = NO_TX
          /\ script = <<NULL, NULL>>
          /\ \E height \in BlockNumbers :
                outs = new_tracked_output(<<>>, UNRELATED_TXID, height, "THEIR_UNILATERAL",
                                          0, OutputSatoshi, "THEIR_HTLC")
       \/ /\ pc = "resolve_our_htlc_ourcommit"
          /\ tx = NO_TX
          /\ script = <<NULL, NULL>>
          /\ feerate_range \in FeerateRanges
          /\ \E out \in OurHtlcOutputs : outs = <<out>>
       \/ /\ pc = "tx_to_us"
          /\ feerate_range = [min |-> 0, max |-> 0]
          /\ tx = NO_TX
          /\ script = <<NULL, NULL>>
          /\ \E out \in SweepOutputs : outs = <<out>>
       \/ /\ pc = "resolved_by_proposal"
          /\ feerate_range = [min |-> 0, max |-> 0]
          /\ tx = NO_TX
          /\ script = <<NULL, NULL>>
          /\ \E out \in ProposedOutputs : outs = <<out>>

\* narrow_feerate_range(&feerate_range, fee, 663), as resolve_our_htlc_ourcommit
\* calls it; i keeps the fee
NarrowFeerateRange ==
    /\ pc = "narrow_feerate_range"
    /\ \E fee \in NarrowFees :
          /\ feerate_range' = narrow_feerate_range(feerate_range, fee, HTLC_TIMEOUT_WEIGHT)
          /\ i' = fee
    /\ UNCHANGED <<pc, err, outs, tx, tx_blockheight, htlcs, to_self_delay, keyset,
                   script, htlc_scripts, htlc_sigs, msg, sent>>

\* is_mutual_close(tx, scriptpubkey[LOCAL], scriptpubkey[REMOTE]); pc keeps
\* what it returned
IsMutualCloseCall ==
    /\ pc = "is_mutual_close"
    /\ pc' = IF is_mutual_close(tx, script[1], script[2]) THEN "true" ELSE "false"
    /\ UNCHANGED <<err, outs, tx, tx_blockheight, htlcs, to_self_delay, keyset,
                   script, htlc_scripts, htlc_sigs, feerate_range, i, msg, sent>>

\* propose_resolution_at_block(out, NULL, block_required,
\* THEIR_HTLC_TIMEOUT_TO_THEM), as resolve_their_htlc calls it; i keeps
\* block_required
ProposeResolutionAtBlock ==
    /\ pc = "propose_resolution_at_block"
    /\ \E block_required \in BlockNumbers :
          /\ outs' = <<propose_resolution_at_block(outs[1], NULL, block_required,
                                                   "THEIR_HTLC_TIMEOUT_TO_THEM")>>
          /\ i' = block_required
    /\ pc' = "proposed"
    /\ UNCHANGED <<err, tx, tx_blockheight, htlcs, to_self_delay, keyset,
                   script, htlc_scripts, htlc_sigs, feerate_range, msg, sent>>

\* resolved_by_proposal(outs[i], &txid), txid that of the spending tx, as
\* output_spent calls it; msg keeps the spending tx and pc what it returned
ResolvedByProposal ==
    /\ pc = "resolved_by_proposal"
    /\ \E t \in ProposalSpendTxs :
          /\ msg' = onchain_spent(t)
          /\ outs' = <<resolved_by_proposal(outs[1], bitcoin_txid(t))>>
          /\ pc' = IF resolved_by_proposal_ok(outs[1], bitcoin_txid(t))
                   THEN "returned_true" ELSE "returned_false"
    /\ UNCHANGED <<err, tx, tx_blockheight, htlcs, to_self_delay, keyset,
                   script, htlc_scripts, htlc_sigs, feerate_range, i, sent>>

\* resolve_our_htlc_ourcommit(out, ..., htlc, to_self_delay, &feerate_range,
\* ..., remotesig, keyset), as handle_our_unilateral calls it; htlcs and
\* htlc_sigs keep the stub and the signature given, and a failure is
\* status_failed's exit
ResolveOurHtlcOurcommit ==
    /\ pc = "resolve_our_htlc_ourcommit"
    /\ \E htlc \in OurHtlcStubs, delay \in ToSelfDelays :
          \E remotesig \in RemoteSigs(outs[1], htlc, delay) :
             LET r == resolve_our_htlc_ourcommit(outs[1], htlc, delay, feerate_range,
                                                 remotesig, KS_LOCAL)
             IN /\ htlcs' = <<htlc>>
                /\ to_self_delay' = delay
                /\ keyset' = KS_LOCAL
                /\ htlc_sigs' = <<remotesig>>
                /\ outs' = <<r.out>>
                /\ feerate_range' = r.feerate_range
                /\ pc' = IF r.ok THEN "proposed_timeout" ELSE "failed"
                /\ err' = IF r.ok THEN "" ELSE "InternalError"
    /\ UNCHANGED <<tx, tx_blockheight, script, htlc_scripts, i, msg, sent>>

\* tx_to_us(ctx, out, to_self_delay, locktime, feerate,
\* local_dust_limit_satoshi, wscript, our_wallet_pubkey, ...), as the
\* handlers call it; tx keeps the tx built, i the feerate, htlc_scripts the
\* witness script
TxToUs ==
    /\ pc = "tx_to_us"
    /\ \E feerate \in SweepFeerates, wscript \in SweepWscripts :
          LET delay == IF outs[1].output_type = "OUR_HTLC" THEN 0 ELSE wscript[2]
              locktime == IF outs[1].output_type = "OUR_HTLC" THEN wscript[3] ELSE 0
          IN /\ (outs[1].output_type = "OUR_HTLC") <=> (Len(wscript) = 4)
             /\ tx' = tx_to_us(outs[1], delay, locktime, feerate, LocalDustLimit,
                               wscript, WALLET_KEY)
             /\ i' = feerate
             /\ htlc_scripts' = <<wscript>>
             /\ to_self_delay' = delay
    /\ pc' = "swept"
    /\ UNCHANGED <<err, outs, tx_blockheight, htlcs, keyset, script, htlc_sigs,
                   feerate_range, msg, sent>>

FunctionsNext ==
    \/ NarrowFeerateRange
    \/ IsMutualCloseCall
    \/ ProposeResolutionAtBlock
    \/ ResolvedByProposal
    \/ TxToUs
    \/ ResolveOurHtlcOurcommit

FunctionsSpec == FunctionsInit /\ [][FunctionsNext]_vars

\* C13: a call of narrow_feerate_range leaves min no lower and max no
\* higher than they were, so over the calls of one handler the range never
\* grows.
C13_RangeOnlyNarrows ==
    [][/\ feerate_range'.min >= feerate_range.min
       /\ feerate_range'.max <= feerate_range.max]_vars

\* C13's case: the range has been narrowed at both ends, the last time by a
\* fee whose own bounds are wider than the range
C13_Witness ==
    /\ pc = "narrow_feerate_range"
    /\ feerate_range.min > 0
    /\ \E r \in NarrowRanges : feerate_range.max < r.max
    /\ ((i + 999) * 1000) \div HTLC_TIMEOUT_WEIGHT > feerate_range.max
    /\ i < 999

\* the first of C14's rules that the init message just read satisfies
C14_Rule(m) ==
    LET commit_num == unmask_commit_number(m.tx) IN
    IF is_mutual_close(m.tx, CLOSING_LOCAL, CLOSING_REMOTE) THEN 1
    ELSE IF bitcoin_txid(m.tx) = m.txid THEN 2
    ELSE IF commit_num < RevocationsReceived THEN 3
    ELSE IF commit_num = RevocationsReceived THEN 4
    ELSE IF commit_num = RevocationsReceived + 1 THEN 5
    ELSE 6

\* C14: main() hands the close to the handler of the first rule that
\* applies, of (1) mutual close, (2) our broadcast txid, (3) a revoked
\* commitment number, (4) the commitment number of the old per-commitment
\* point, (5) that of the new one, (6) none: the state reported, the tx_type
\* the funding output is resolved by and the keyset derived are that
\* handler's, and (3) and (6) end with InternalError before anything is
\* reported.
C14_FirstMatchingRule ==
    [][pc = "start" =>
          LET rule == C14_Rule(msg')
              handled(state, tx_type, ks) ==
                  /\ pc' # "failed"
                  /\ sent' = <<[type |-> "onchain_init_reply", state |-> state,
                                tx |-> NO_TX, txid |-> <<>>, num_outputs |-> 0]>>
                  /\ outs'[1].resolved # NULL
                  /\ Deref(outs'[1].resolved).tx_type = tx_type
                  /\ keyset' = ks
          IN /\ msg'.type = "onchain_init"
             /\ rule = 1 => handled("ONCHAIND_MUTUAL", "MUTUAL_CLOSE", 0)
             /\ rule = 2 => handled("ONCHAIND_OUR_UNILATERAL", "OUR_UNILATERAL", KS_LOCAL)
             /\ rule = 4 => handled("ONCHAIND_THEIR_UNILATERAL", "THEIR_UNILATERAL",
                                    KS_REMOTE_OLD)
             /\ rule = 5 => handled("ONCHAIND_THEIR_UNILATERAL", "THEIR_UNILATERAL",
                                    KS_REMOTE_NEW)
             /\ rule \in {3, 6} => (pc' = "failed" /\ err' = "InternalError"
                                    /\ sent' = <<>> /\ outs'[1].resolved = NULL)]_vars

\* C14's case: our own commitment, its number one they have revoked (rules
\* 2 and 3 both apply), handled as our unilateral close
C14_Witness ==
    /\ pc = "our_unilateral"
    /\ msg.type = "onchain_init"
    /\ msg.txid = bitcoin_txid(msg.tx)
    /\ unmask_commit_number(msg.tx) < RevocationsReceived
    /\ keyset = KS_LOCAL

C15_Returned == pc \in {"true", "false"} /\ tx \in MutualTxs

\* C15 as stated: is_mutual_close returns true iff every output's script is
\* exactly one of the two closing scriptpubkeys and each closing
\* scriptpubkey is the script of at most one output.
C15_EveryOutputExactlyOne ==
    C15_Returned =>
        (pc = "true" <=>
            /\ \A k \in 1..Len(tx.output) :
                  (tx.output[k].script = script[1]) # (tx.output[k].script = script[2])
            /\ \A n \in 1..2 :
                  Cardinality({k \in 1..Len(tx.output) :
                                 tx.output[k].script = script[n]}) <= 1)

\* C15: is_mutual_close returns true iff the outputs can be given, each a
\* different one, to the two closing scriptpubkeys so that every output's
\* script is the scriptpubkey it is given to.
C15_OutputsPairWithScripts ==
    C15_Returned =>
        (pc = "true" <=>
            \E f \in [1..Len(tx.output) -> 1..2] :
                /\ \A k \in 1..Len(tx.output) : tx.output[k].script = script[f[k]]
                /\ \A j, k \in 1..Len(tx.output) : j # k => f[j] # f[k])

\* C15's case: both sides close to the same script, and the tx pays it
\* twice
C15_Witness ==
    /\ C15_Returned
    /\ pc = "true"
    /\ script[1] = script[2]
    /\ Len(tx.output) = 2

\* the state of the close the rule of C14 stands for
C16_State(rule) ==
    CASE rule = 1 -> "ONCHAIND_MUTUAL"
      [] rule = 2 -> "ONCHAIND_OUR_UNILATERAL"
      [] rule \in {4, 5} -> "ONCHAIND_THEIR_UNILATERAL"

\* C16: for a close handled as mutual, our unilateral or their unilateral,
\* the step that reads the init message writes one onchain_init_reply with
\* that close's state and nothing else; that step happens once; no later
\* step writes an onchain_init_reply; and onchain_broadcast_tx,
\* onchain_unwatch_tx and the reading of depth and spend messages belong to
\* the loop, which starts after it.
C16_OneInitReplyFirst ==
    [][/\ (pc = "start" /\ C14_Rule(msg') \in {1, 2, 4, 5})
            => sent' = <<[type |-> "onchain_init_reply",
                          state |-> C16_State(C14_Rule(msg')),
                          tx |-> NO_TX, txid |-> <<>>, num_outputs |-> 0]>>
       /\ pc' # "start"
       /\ pc # "start"
            => \A n \in 1..Len(sent') : sent'[n].type # "onchain_init_reply"
       /\ pc # "loop"
            => /\ msg'.type \notin {"onchain_depth", "onchain_spent"}
               /\ \A n \in 1..Len(sent') :
                     sent'[n].type \notin {"onchain_broadcast_tx", "onchain_unwatch_tx"}]_vars

\* C16's case: their unilateral close, reported, and later in the loop a
\* depth update read and a tx broadcast
C16_Witness ==
    /\ pc = "loop"
    /\ keyset \in {KS_REMOTE_OLD, KS_REMOTE_NEW}
    /\ msg.type = "onchain_depth"
    /\ Len(sent) >= 1
    /\ sent[1].type = "onchain_broadcast_tx"

\* C17: in the loop a message that is none of onchain_depth, onchain_spent
\* and onchain_known_preimage ends the engine with BadCommand, and
\* onchain_known_preimage ends it with InternalError; the step changes no
\* tracked output and writes nothing, and an engine that has failed takes
\* no further step.
C17_OtherMessagesAreFatal ==
    [][/\ (pc = "loop" /\ msg'.type \notin {"onchain_depth", "onchain_spent"})
            => /\ pc' = "failed"
               /\ err' = IF msg'.type = "onchain_known_preimage"
                         THEN "InternalError" ELSE "BadCommand"
               /\ outs' = outs
               /\ sent' = <<>>
       /\ pc = "failed" => UNCHANGED vars]_vars

\* C17's case: a known preimage arrived while outputs of a commitment were
\* tracked and unresolved
C17_Witness ==
    /\ pc = "failed"
    /\ err = "InternalError"
    /\ msg.type = "onchain_known_preimage"
    /\ \E k \in Tracked : ~IsResolved(outs[k])

\* C18: propose_resolution_at_block leaves a proposal whose depth_required
\* is block_required - tx_blockheight when that is positive and 0 when the
\* block is the tx's own or before it; it is never negative (what a
\* wrapped-around difference is here).
C18_DepthRequiredIsClampedDifference ==
    pc = "proposed" =>
        LET p == Deref(outs[1].proposal)
            block_required == i
            height == outs[1].tx_blockheight
        IN /\ p.depth_required >= 0
           /\ block_required > height => height + p.depth_required = block_required
           /\ block_required <= height => p.depth_required = 0
           /\ p.tx = NULL
           /\ p.tx_type = "THEIR_HTLC_TIMEOUT_TO_THEM"
           /\ outs[1].resolved = NULL

\* C18's case: the block required is long before the block of the tx
C18_Witness ==
    /\ pc = "proposed"
    /\ i < outs[1].tx_blockheight - IRREVOCABLE_DEPTH
    /\ Deref(outs[1].proposal).depth_required = 0

\* handle_their_unilateral has just tracked commitment output i as OUR_HTLC
C19_OurHtlcTracked ==
    /\ pc = "their_unilateral"
    /\ pc' # "failed"
    /\ Len(outs') = Len(outs) + 1
    /\ outs'[Len(outs')].output_type = "OUR_HTLC"

\* C19: on their unilateral close the output at index i that matches HTLC
\* script j, the HTLC ours, is tracked as OUR_HTLC with a proposal of type
\* OUR_HTLC_TIMEOUT_TO_US whose sweep tx has nLockTime = the cltv_expiry of
\* stub j and which is due at that block, whatever i and j are.
C19_SweepAtMatchedExpiry ==
    [][C19_OurHtlcTracked =>
          LET j == match_htlc_output(tx, i, htlc_scripts)
              new == outs'[Len(outs')]
              p == Deref(new.proposal)
          IN /\ j # -1
             /\ htlcs[j + 1].owner = LOCAL_SIDE
             /\ new.outnum = i
             /\ new.proposal # NULL
             /\ p.tx_type = "OUR_HTLC_TIMEOUT_TO_US"
             /\ p.tx # NULL
             /\ Deref(p.tx).input_txid = txid
             /\ Deref(p.tx).input_index = i
             /\ Deref(p.tx).lock_time = htlcs[j + 1].cltv_expiry
             /\ p.depth_required = Max(0, htlcs[j + 1].cltv_expiry - tx_blockheight)]_vars

\* the tracked outputs of the commitment that came under a kind of matcher
C20_TrackedAs(o, types) == {k \in 1..Len(o) : o[k].output_type \in types}

\* C20: in both unilateral handlers the matcher that takes a commitment
\* output is cleared in the same iteration (script[LOCAL], script[REMOTE],
\* or the HTLC script j that matched), so no two commitment outputs are
\* tracked under script[LOCAL], nor two under script[REMOTE].
C20_MatchersAreSingleShot ==
    [][(pc \in {"our_unilateral", "their_unilateral"} /\ pc' # "failed") =>
          LET new == outs'[Len(outs')]
              j == match_htlc_output(tx, i, htlc_scripts)
          IN /\ Len(outs') = Len(outs) + 1
             /\ new.output_type \in {"DELAYED_OUTPUT_TO_US", "OUTPUT_TO_US"}
                  => script'[1] = NULL
             /\ new.output_type \in {"OUTPUT_TO_THEM", "DELAYED_OUTPUT_TO_THEM"}
                  => script'[2] = NULL
             /\ new.output_type \in {"OUR_HTLC", "THEIR_HTLC"}
                  => (j # -1 /\ htlc_scripts'[j + 1] = NULL)
             /\ Cardinality(C20_TrackedAs(outs', {"DELAYED_OUTPUT_TO_US", "OUTPUT_TO_US"})) <= 1
             /\ Cardinality(C20_TrackedAs(outs', {"OUTPUT_TO_THEM", "DELAYED_OUTPUT_TO_THEM"})) <= 1]_vars

\* the unresolved outputs a depth update (t, d) fires the proposal of
C21_Fires(k, t, d) ==
    /\ ~IsResolved(outs[k])
    /\ outs[k].txid = t
    /\ outs[k].proposal # NULL
    /\ Proposal(outs[k]).depth_required <= d

\* C21: a depth update (txid, depth) gives the depth to every resolved
\* output whose resolution.txid is txid; every unresolved output of that
\* txid whose proposal has depth_required <= depth fires: with a tx one
\* onchain_broadcast_tx of it is emitted and the output is left as it was,
\* without a tx the output is ignored; every other output is unchanged and
\* nothing else is emitted, so an update that matches nothing changes and
\* emits nothing.
C21_DepthUpdateEffects ==
    [][(pc = "loop" /\ msg'.type = "onchain_depth") =>
          LET t == msg'.txid
              d == msg'.depth
              broadcasts == {k \in Tracked : C21_Fires(k, t, d) /\ Proposal(outs[k]).tx # NULL}
          IN /\ Len(outs') = Len(outs)
             /\ \A k \in Tracked :
                   IF IsResolved(outs[k])
                   THEN IF Resolution(outs[k]).txid = t
                        THEN outs'[k] = [outs[k] EXCEPT !.resolved = Ptr([Resolution(outs[k]) EXCEPT !.depth = d])]
                        ELSE outs'[k] = outs[k]
                   ELSE IF C21_Fires(k, t, d) /\ Proposal(outs[k]).tx = NULL
                        THEN /\ outs'[k].resolved = Ptr([txid |-> outs[k].txid, depth |-> 0, tx_type |-> "SELF"])
                             /\ [outs'[k] EXCEPT !.resolved = NULL] = outs[k]
                        ELSE outs'[k] = outs[k]
             /\ Len(sent') = Cardinality(broadcasts)
             /\ \A k \in broadcasts :
                   Cardinality({n \in 1..Len(sent') : IsBroadcastOf(sent'[n], outs[k])}) = 1
             /\ err' = ""]_vars

\* C21's case: one depth update of the commitment's txid has given the
\* depth to a resolved output, broadcast a proposed tx, ignored an output
\* whose proposal has no tx and left an output below its depth as it was.
C21_Witness ==
    /\ pc = "loop"
    /\ msg.type = "onchain_depth"
    /\ msg.txid = txid
    /\ \E k \in Tracked : IsResolved(outs[k]) /\ Resolution(outs[k]).txid = txid
                          /\ Resolution(outs[k]).depth = msg.depth
    /\ \E k \in Tracked : ~IsResolved(outs[k]) /\ BroadcastSentFor(outs[k])
    /\ \E k \in Tracked : /\ outs[k].output_type = "THEIR_HTLC"
                          /\ IsResolved(outs[k]) /\ Resolution(outs[k]).depth = 0

\* C22: resolved_by_proposal(out, spending_txid) returns true iff the
\* proposal of out has a tx whose txid is spending_txid; on true out is
\* resolved with resolution.txid = spending_txid, depth 0 and the proposal's
\* tx_type, and nothing else of it changes; on false out is exactly as it
\* was, unresolved and with its proposal.
C22_ResolvedByProposal ==
    [][pc = "resolved_by_proposal" =>
          LET out == outs[1]
              spending_txid == bitcoin_txid(msg'.tx)
              matches == /\ Proposal(out).tx # NULL
                         /\ bitcoin_txid(Deref(Proposal(out).tx)) = spending_txid
          IN /\ pc' = "returned_true" <=> matches
             /\ pc' = "returned_false" <=> ~matches
             /\ matches =>
                   /\ outs'[1].resolved = Ptr([txid |-> spending_txid, depth |-> 0,
                                               tx_type |-> Proposal(out).tx_type])
                   /\ [outs'[1] EXCEPT !.resolved = NULL] = out
             /\ ~matches =>
                   /\ outs'[1] = out
                   /\ ~IsResolved(outs'[1])
                   /\ outs'[1].proposal # NULL]_vars

\* C22's cases: true for the proposed tx, false for another spender of the
\* same output when the proposal has a tx
C22_Witness ==
    /\ pc = "returned_false"
    /\ Proposal(outs[1]).tx # NULL
    /\ msg.tx.input_txid = outs[1].txid
    /\ msg.tx.input_index = outs[1].outnum
    /\ msg.tx.input_index = Deref(Proposal(outs[1]).tx).input_index

\* the unresolved outputs whose outpoint is the input of tx t, t not being
\* the tx proposed for them
C23_SpentByOther(k, t) ==
    /\ ~IsResolved(outs[k])
    /\ t.input_txid = outs[k].txid
    /\ t.input_index = outs[k].outnum
    /\ outs[k].proposal # NULL
    /\ \/ Proposal(outs[k]).tx = NULL
       \/ bitcoin_txid(Deref(Proposal(outs[k]).tx)) # bitcoin_txid(t)

\* C23: when a tx that is not its proposal spends an unresolved output, a
\* DELAYED_OUTPUT_TO_US or OUTPUT_TO_US becomes resolved with UNKNOWN_TXTYPE,
\* the spender's txid and depth 0, and no unwatch is emitted; for an
\* OUR_HTLC the engine ends with InternalError.
C23_SpendByOtherByType ==
    [][(pc = "loop" /\ msg'.type = "onchain_spent") =>
          \A k \in Tracked :
              C23_SpentByOther(k, msg'.tx) =>
                  /\ outs[k].output_type \in {"DELAYED_OUTPUT_TO_US", "OUTPUT_TO_US"} =>
                        /\ pc' # "failed"
                        /\ outs'[k].resolved = Ptr([txid |-> bitcoin_txid(msg'.tx), depth |-> 0,
                                                    tx_type |-> "UNKNOWN_TXTYPE"])
                        /\ sent' = <<>>
                  /\ outs[k].output_type = "OUR_HTLC" =>
                        /\ pc' = "failed"
                        /\ err' = "InternalError"
                        /\ outs' = outs]_vars

\* C23's case: somebody else's tx has spent our delayed output
C23_Witness ==
    /\ pc = "loop"
    /\ msg.type = "onchain_spent"
    /\ \E k \in Tracked :
          /\ outs[k].output_type = "DELAYED_OUTPUT_TO_US"
          /\ msg.tx.input_txid = outs[k].txid
          /\ msg.tx.input_index = outs[k].outnum
          /\ IsResolved(outs[k])
          /\ Resolution(outs[k]).tx_type = "UNKNOWN_TXTYPE"
          /\ Resolution(outs[k]).txid = bitcoin_txid(msg.tx)
          /\ bitcoin_txid(msg.tx) # bitcoin_txid(Deref(Proposal(outs[k]).tx))

\* C24: a spend notification for an unresolved THEIR_HTLC output changes
\* nothing and writes nothing to the parent, and a resolved THEIR_HTLC
\* always has tx_type SELF: only the ignore at depth resolves it.
C24_TheirHtlcSpendChangesNothing ==
    [][/\ (/\ pc = "loop"
           /\ msg'.type = "onchain_spent"
           /\ \E k \in Tracked :
                 /\ outs[k].output_type = "THEIR_HTLC"
                 /\ ~IsResolved(outs[k])
                 /\ msg'.tx.input_txid = outs[k].txid
                 /\ msg'.tx.input_index = outs[k].outnum)
          => (outs' = outs /\ sent' = <<>> /\ pc' = "loop" /\ err' = "")
       /\ \A k \in 1..Len(outs') :
             (outs'[k].output_type = "THEIR_HTLC" /\ IsResolved(outs'[k]))
                => (/\ Resolution(outs'[k]).tx_type = "SELF"
                    /\ Resolution(outs'[k]).txid = outs'[k].txid)]_vars

\* C24's case: the spend of a THEIR_HTLC output was reported while it was
\* unresolved, and it is unresolved still
C24_Witness ==
    /\ pc = "loop"
    /\ msg.type = "onchain_spent"
    /\ \E k \in Tracked :
          /\ outs[k].output_type = "THEIR_HTLC"
          /\ ~IsResolved(outs[k])
          /\ msg.tx.input_txid = outs[k].txid
          /\ msg.tx.input_index = outs[k].outnum

\* the HTLC-timeout tx of output out paying `amount`
C25_TimeoutTx(out, amount) ==
    htlc_timeout_tx(out.txid, out.outnum, amount, htlcs'[1].cltv_expiry, to_self_delay', keyset')

\* the feerates of the range whose fee the output can pay and at which the
\* counterparty's signature verifies
C25_Matching(out) ==
    {f \in feerate_range.min..feerate_range.max :
        /\ (f * 663) \div 1000 <= out.satoshi
        /\ htlc_sigs'[1] = sign_tx_input(C25_TimeoutTx(out, out.satoshi - (f * 663) \div 1000),
                                         htlc_offered_wscript(htlcs'[1].ripemd, keyset'),
                                         other_payment_key(keyset'))}

\* C25: resolve_our_htlc_ourcommit makes a proposal iff some feerate of the
\* range, with a fee (feerate * 663 / 1000) the output can pay, makes the
\* counterparty's signature verify; the tx proposed pays satoshi minus that
\* fee, at block cltv_expiry with tx-type OUR_HTLC_TIMEOUT_TO_US; with no
\* such feerate (an empty range included) it fails with InternalError and
\* the output has no proposal.
C25_ProposalIffFeerateMatches ==
    [][pc = "resolve_our_htlc_ourcommit" =>
          LET out == outs[1]
              new == outs'[1]
          IN /\ (new.proposal # NULL) <=> (C25_Matching(out) # {})
             /\ C25_Matching(out) # {} =>
                   /\ pc' = "proposed_timeout"
                   /\ Proposal(new).tx # NULL
                   /\ \E f \in C25_Matching(out) :
                         Deref(Proposal(new).tx) = C25_TimeoutTx(out, out.satoshi - (f * 663) \div 1000)
                   /\ Proposal(new).tx_type = "OUR_HTLC_TIMEOUT_TO_US"
                   /\ Proposal(new).depth_required = Max(0, htlcs'[1].cltv_expiry - out.tx_blockheight)
             /\ C25_Matching(out) = {} =>
                   /\ pc' = "failed"
                   /\ err' = "InternalError"
                   /\ new = out]_vars

\* C25's case: the signature verifies at a feerate inside the range that
\* is neither end of it, and the proposal is made
C25_Witness ==
    /\ pc = "proposed_timeout"
    /\ htlc_sigs # <<>>
    /\ outs[1].output_type = "OUR_HTLC"
    /\ outs[1].proposal # NULL
    /\ Deref(Proposal(outs[1]).tx).output[1].amount = outs[1].satoshi - htlc_timeout_fee(SigFeerateStep)

\* the close was classified as a unilateral one, ours or theirs
C26_Unilateral ==
    /\ outs # <<>>
    /\ IsResolved(outs[1])
    /\ Resolution(outs[1]).tx_type \in {"OUR_UNILATERAL", "THEIR_UNILATERAL"}

\* what of a tracked output says which output it is
C26_Identity(out) ==
    <<out.tx_type, out.txid, out.tx_blockheight, out.outnum, out.satoshi, out.output_type>>

\* the store of a unilateral close in the loop: the funding output, then one
\* tracked output per commitment output, in output order
C26_OnePerOutput ==
    (pc \in {"loop", "done"} /\ C26_Unilateral) =>
        /\ Len(outs) = 1 + Len(tx.output)
        /\ outs[1].output_type = "FUNDING_OUTPUT"
        /\ \A n \in 1..Len(tx.output) :
              /\ outs[n + 1].output_type # "FUNDING_OUTPUT"
              /\ outs[n + 1].txid = txid
              /\ outs[n + 1].outnum = n - 1
              /\ outs[n + 1].satoshi = tx.output[n].amount

\* commitment output i pays none of the scripts still to be matched
C26_NoMatcher ==
    LET s == tx.output[i + 1].script
    IN /\ ~(script[1] # NULL /\ s = script[1])
       /\ ~(script[2] # NULL /\ s = script[2])
       /\ \A j \in 1..Len(htlc_scripts) :
             ~(htlc_scripts[j] # NULL /\ s = scriptpubkey_p2wsh(htlc_scripts[j]))

\* C26: a unilateral close that reaches the loop has the funding output at
\* index 0 followed by one tracked output per commitment output, in output
\* order, with the output's index and amount; a commitment output that no
\* matcher takes is fatal (InternalError) before the loop; in the loop the
\* store is never extended, reordered or shrunk.
C26_StoreIsCommitmentInOrder ==
    [][/\ C26_OnePerOutput'
       /\ (pc \in {"our_unilateral", "their_unilateral"} /\ C26_NoMatcher)
             => (pc' = "failed" /\ err' = "InternalError")
       /\ pc = "loop" =>
             /\ Len(outs') = Len(outs)
             /\ \A k \in Tracked : C26_Identity(outs'[k]) = C26_Identity(outs[k])]_vars

\* C26's case: their commitment with two outputs is in the loop and a
\* message has been handled
C26_Witness ==
    /\ pc = "loop"
    /\ msg.type \in {"onchain_depth", "onchain_spent"}
    /\ Resolution(outs[1]).tx_type = "THEIR_UNILATERAL"
    /\ Len(tx.output) = MaxOutputs
    /\ Len(outs) = 1 + MaxOutputs
    /\ outs[1 + MaxOutputs].outnum = MaxOutputs - 1

C27_ToThem == {"OUTPUT_TO_THEM", "DELAYED_OUTPUT_TO_THEM"}

\* C27: every tracked output of type OUTPUT_TO_THEM or
\* DELAYED_OUTPUT_TO_THEM is resolved in every reachable state (it is
\* ignored when it is tracked), so no spend notification selects one and
\* the guard "Tracked spend of ..." of output_spent is never reached.
C27_ToThemAlwaysResolved ==
    /\ \A k \in Tracked :
          outs[k].output_type \in C27_ToThem =>
              /\ IsResolved(outs[k])
              /\ Resolution(outs[k]).tx_type = "SELF"
    /\ msg.type = "onchain_spent" =>
          \A k \in spent_candidates(outs, msg.tx) : outs[k].output_type \notin C27_ToThem

\* C27's case: the spend of an output to them was reported, found no
\* output to select and was unwatched
C27_Witness ==
    /\ pc = "loop"
    /\ msg.type = "onchain_spent"
    /\ \E k \in Tracked :
          /\ outs[k].output_type \in C27_ToThem
          /\ msg.tx.input_txid = outs[k].txid
          /\ msg.tx.input_index = outs[k].outnum
    /\ sent = unwatch_tx(msg.tx)

\* the fee tx_to_us takes: feerate * cost / 1000, cost the weight of the tx
\* with its one output plus the worst-case witness
C28_Fee ==
    LET one_output == [NO_TX EXCEPT !.output = <<[amount |-> 0, script |-> scriptpubkey_p2wpkh(WALLET_KEY)]>>]
    IN (i' * (measure_tx_cost(one_output) + 1 + 3 + 73 + 0 + Len(htlc_scripts'[1]))) \div 1000

\* C28 as claimed: tx_to_us drops the sweep's only output whenever the
\* swept amount is <= dust_limit + fee, the boundary included, and
\* otherwise pays amount - fee, which is not negative.
C28_DropsAtOrBelowDustPlusFee ==
    [][pc = "tx_to_us" =>
          IF outs[1].satoshi <= LocalDustLimit + C28_Fee
          THEN tx'.output = <<>>
          ELSE /\ Len(tx'.output) = 1
               /\ tx'.output[1].amount = outs[1].satoshi - C28_Fee
               /\ tx'.output[1].amount >= 0]_vars

\* C28, amended: tx_to_us drops the sweep's only output whenever the swept
\* amount is < dust_limit + fee; from the boundary amount = dust_limit + fee
\* on the output is kept and pays amount - fee, which is at least
\* dust_limit and so never negative.
C28_DropsBelowDustPlusFee ==
    [][pc = "tx_to_us" =>
          IF outs[1].satoshi < LocalDustLimit + C28_Fee
          THEN tx'.output = <<>>
          ELSE /\ Len(tx'.output) = 1
               /\ tx'.output[1].amount = outs[1].satoshi - C28_Fee
               /\ tx'.output[1].amount >= LocalDustLimit
               /\ tx'.output[1].script = scriptpubkey_p2wpkh(WALLET_KEY)]_vars

\* C28's case: the sweep of an amount of exactly dust_limit + fee, at a
\* feerate that is not 0
C28_Witness ==
    /\ pc = "swept"
    /\ i > 0
    /\ Len(tx.output) = 1
    /\ tx.output[1].amount = LocalDustLimit
    /\ outs[1].satoshi > LocalDustLimit

\* C29: while the loop is running every unresolved tracked output holds a
\* proposal, so resolved_by_proposal, which reads out->proposal->tx, is
\* never called on an output without one (the funding output least of
\* all, which is resolved before the loop).
C29_UnresolvedHoldProposal ==
    /\ pc = "loop" =>
          /\ \A k \in Tracked : ~IsResolved(outs[k]) => outs[k].proposal # NULL
          /\ IsResolved(outs[1])
    /\ err # "Crash"
    /\ msg.type = "onchain_spent" =>
          \A k \in spent_candidates(outs, msg.tx) : outs[k].proposal # NULL

\* C29's case: in the loop, a spend of an unresolved output was reported
\* and resolved_by_proposal was called on it, and another output is still
\* unresolved
C29_Witness ==
    /\ pc = "loop"
    /\ msg.type = "onchain_spent"
    /\ \E k \in Tracked :
          /\ msg.tx.input_txid = outs[k].txid
          /\ msg.tx.input_index = outs[k].outnum
          /\ IsResolved(outs[k])
          /\ Resolution(outs[k]).txid = bitcoin_txid(msg.tx)
    /\ \E k \in Tracked : ~IsResolved(outs[k])

\* the depth update just read qualifies output k for the broadcast of its
\* proposed tx
C30_Qualifies(k) ==
    /\ pc = "loop"
    /\ msg'.type = "onchain_depth"
    /\ ~IsResolved(outs[k])
    /\ outs[k].proposal # NULL
    /\ Proposal(outs[k]).tx # NULL
    /\ msg'.txid = outs[k].txid
    /\ msg'.depth >= Proposal(outs[k]).depth_required

\* C30: every onchain_broadcast_tx emitted carries the proposed tx of an
\* output that is unresolved, in answer to a depth update of that output's
\* own txid with depth >= the proposal's depth_required (so never for a
\* proposal without a tx); and every such depth update emits it, however
\* often it was emitted before, the output staying unresolved.
C30_BroadcastOnlyAndAlwaysWhenQualified ==
    [][/\ \A n \in 1..Len(sent') :
             sent'[n].type = "onchain_broadcast_tx" =>
                 \E k \in Tracked :
                     /\ C30_Qualifies(k)
                     /\ sent'[n].tx = Deref(Proposal(outs[k]).tx)
       /\ \A k \in Tracked :
             C30_Qualifies(k) =>
                 /\ \E n \in 1..Len(sent') : IsBroadcastOf(sent'[n], outs[k])
                 /\ outs'[k] = outs[k]]_vars

\* C30's case: the sweep of our delayed output is broadcast at a depth
\* update of the commitment's txid that is not the first one to qualify: an
\* earlier one ignored their HTLC, whose resolution has since got a depth
C30_Witness ==
    /\ pc = "loop"
    /\ msg.type = "onchain_depth"
    /\ msg.txid = txid
    /\ \E k \in Tracked :
          /\ outs[k].output_type = "DELAYED_OUTPUT_TO_US"
          /\ ~IsResolved(outs[k])
          /\ Proposal(outs[k]).depth_required <= MaxLow
          /\ BroadcastSentFor(outs[k])
    /\ \E k \in Tracked :
          /\ outs[k].output_type = "THEIR_HTLC"
          /\ IsResolved(outs[k])
          /\ Resolution(outs[k]).depth > 0

\* the feerate the loop of resolve_our_htlc_ourcommit stops at: the highest
\* one of the range that matches
C31_Found == CHOOSE f \in C25_Matching(outs[1]) : \A g \in C25_Matching(outs[1]) : g <= f

LastDepth(t) ==
    LET ds == {Resolution(outs[k]).depth :
                  k \in {n \in Tracked : IsResolved(outs[n]) /\ Resolution(outs[n]).txid = t}}
    IN IF ds = {} THEN 0 ELSE CHOOSE d \in ds : \A e \in ds : e <= d

\* the depths this parent reports: a shallow one and the irrevocable one
LiveDepths == {MaxLow, IRREVOCABLE_DEPTH}

LiveRecvDepth ==
    /\ pc = "loop"
    /\ \E t \in DepthTxids, depth \in LiveDepths :
          /\ depth >= LastDepth(t)
          /\ Handled(onchain_depth(t, depth), tx_new_depth(outs, t, depth))

LiveRecvSpent ==
    /\ pc = "loop"
    /\ \E t \in SpendTxs :
          /\ output_spent(outs, t).err = ""
          /\ Handled(onchain_spent(t), output_spent(outs, t))

\* the tx that resolved tracked output k, not yet irrevocable, is reported
\* at IRREVOCABLE_DEPTH or deeper
DeepDepth(k) ==
    /\ pc = "loop"
    /\ k \in Tracked
    /\ IsResolved(outs[k])
    /\ Resolution(outs[k]).depth < IRREVOCABLE_DEPTH
    /\ \E depth \in LiveDepths :
          /\ depth >= IRREVOCABLE_DEPTH
          /\ depth >= LastDepth(Resolution(outs[k]).txid)
          /\ Handled(onchain_depth(Resolution(outs[k]).txid, depth),
                     tx_new_depth(outs, Resolution(outs[k]).txid, depth))

LiveNext ==
    \/ Main
    \/ OurUnilateralOutput
    \/ TheirUnilateralOutput
    \/ LiveRecvDepth
    \/ LiveRecvSpent

LiveSpec ==
    /\ Init
    /\ [][LiveNext]_vars
    /\ \A k \in 1..(MaxOutputs + 1) : WF_vars(DeepDepth(k))

=============================================================================
